---- MODULE Spec2Model ----
(***************************************************************************)
(* AircraftDB: the SQLite store (aircraftdb/database.py) and the FAA file  *)
(* ingestion (aircraftdb/ingest.py).                                       *)
(*                                                                         *)
(* Text is a sequence of one-character strings, so that strip(), upper()   *)
(* and startswith() are computed and not assumed.  A Python value is a     *)
(* record [t, v]: t its type, v its text (the decimal digits of an int,    *)
(* the repr of a float, the characters of a str, nothing for None).  A SQL *)
(* value is [t, v] with t "null" or "text": every column modelled here is  *)
(* declared TEXT, and SQLite stores what is bound to it as text.           *)
(***************************************************************************)
EXTENDS Integers, Sequences, FiniteSets, Bags, TLC

VARIABLES
    db,         \* the committed content of the store: table name -> bag of rows
    last,       \* the last call of the store API: its name, argument and outcome
    upserted,   \* history: table name -> stored key -> the row of the latest upsert that succeeded
    dir,        \* the directory handed to ingest_directory: its files and their content
    env,        \* the installation: whether openpyxl can be imported, and the number of
                \* faults (disk, lock) its upserts may meet
    ing,        \* the ingest_directory call in progress: position, counters, summary
    snap,       \* history: the store and the call as the previous run ended
    conns,      \* the callers' connections: operation, position, uncommitted view
    lock,       \* the caller whose connection holds the write lock, 0 for none
    committed,  \* history: every row a commit has made visible
    clock,      \* the store's clock in seconds, and the created_at and updated_at
                \* columns of aircraft_models by key, where the timestamps are followed
    runs        \* the ingestions running at once in worker threads: each one's
                \* position in the file, counters and the exceptions it logged

vars == <<db, last, upserted, dir, env, ing, snap, conns, lock, committed, clock, runs>>

\* what the calls of the store API leave alone, what an upsert followed with
\* its timestamps leaves alone, what ingestion leaves alone, and what the
\* steps of a connection leave alone
notApiVars == <<dir, env, ing, snap, conns, lock, committed, clock, runs>>

notClockVars == <<upserted, dir, env, ing, snap, conns, lock, committed, runs>>

notIngVars == <<last, upserted, conns, lock, committed, clock, runs>>

notConnVars == <<last, upserted, dir, env, ing, snap, clock, runs>>

----------------------------------------------------------------------------
(* Text *)

Whitespace == {" ", "\t", "\n"}

DigitChars == {"0", "1", "2", "3", "4", "5", "6", "7", "8", "9"}

\* str.upper() on one character
UpperChar(c) ==
    CASE c = "a" -> "A" [] c = "b" -> "B" [] c = "c" -> "C" [] c = "d" -> "D"
      [] c = "e" -> "E" [] c = "f" -> "F" [] c = "g" -> "G" [] c = "h" -> "H"
      [] c = "i" -> "I" [] c = "j" -> "J" [] c = "k" -> "K" [] c = "l" -> "L"
      [] c = "m" -> "M" [] c = "n" -> "N" [] c = "o" -> "O" [] c = "p" -> "P"
      [] c = "q" -> "Q" [] c = "r" -> "R" [] c = "s" -> "S" [] c = "t" -> "T"
      [] c = "u" -> "U" [] c = "v" -> "V" [] c = "w" -> "W" [] c = "x" -> "X"
      [] c = "y" -> "Y" [] c = "z" -> "Z" [] OTHER -> c

Upper(s) == [i \in 1..Len(s) |-> UpperChar(s[i])]

RECURSIVE LStrip(_)
LStrip(s) == IF s # <<>> /\ Head(s) \in Whitespace THEN LStrip(Tail(s)) ELSE s

RECURSIVE RStrip(_)
RStrip(s) ==
    IF s # <<>> /\ s[Len(s)] \in Whitespace THEN RStrip(SubSeq(s, 1, Len(s) - 1)) ELSE s

\* str.strip()
Strip(s) == RStrip(LStrip(s))

\* str.startswith(p)
StartsWith(s, p) == Len(s) >= Len(p) /\ SubSeq(s, 1, Len(p)) = p

RECURSIVE StripLeadingZeros(_)
StripLeadingZeros(s) ==
    IF Len(s) > 1 /\ Head(s) = "0" THEN StripLeadingZeros(Tail(s)) ELSE s

RECURSIVE StripTrailingZeros(_)
StripTrailingZeros(s) ==
    IF Len(s) > 1 /\ s[Len(s)] = "0"
    THEN StripTrailingZeros(SubSeq(s, 1, Len(s) - 1)) ELSE s

AllDigits(s) == \A i \in 1..Len(s) : s[i] \in DigitChars

\* the position of the first "." of s, 0 when there is none
DotAt(s) ==
    IF \E i \in 1..Len(s) : s[i] = "."
    THEN CHOOSE i \in 1..Len(s) : s[i] = "." /\ \A j \in 1..(i - 1) : s[j] # "."
    ELSE 0

----------------------------------------------------------------------------
(* Python values *)

PyNone == [t |-> "None", v |-> <<>>]

PyStr(s) == [t |-> "str", v |-> s]

PyInt(digits) == [t |-> "int", v |-> digits]

PyFloat(repr) == [t |-> "float", v |-> repr]

NaN == PyFloat(<<"n", "a", "n">>)

\* int(text) succeeds: the texts of the model carry no sign and no underscore
IsIntText(s) == s # <<>> /\ AllDigits(s)

\* float(text) succeeds, for the texts of the model: "nan" in any case, or
\* digits with one "." and a digit on at least one side of it
IsFloatText(s) ==
    \/ Upper(s) = <<"N", "A", "N">>
    \/ /\ DotAt(s) > 0
       /\ Len(s) > 1
       /\ AllDigits(SubSeq(s, 1, DotAt(s) - 1))
       /\ AllDigits(SubSeq(s, DotAt(s) + 1, Len(s)))

\* the text SQLite keeps for the float that float(text) returns
FloatRepr(s) ==
    IF Upper(s) = <<"N", "A", "N">> THEN <<"n", "a", "n">>
    ELSE LET ip == SubSeq(s, 1, DotAt(s) - 1)
             fp == SubSeq(s, DotAt(s) + 1, Len(s))
         IN  StripLeadingZeros(IF ip = <<>> THEN <<"0">> ELSE ip) \o <<".">>
                \o StripTrailingZeros(IF fp = <<>> THEN <<"0">> ELSE fp)

\* parse_value: empty -> None, else int, else float, else the stripped text
parse_value(value) ==
    IF Strip(value) = <<>> THEN PyNone
    ELSE IF IsIntText(Strip(value)) THEN PyInt(StripLeadingZeros(Strip(value)))
    ELSE IF IsFloatText(Strip(value)) THEN PyFloat(FloatRepr(Strip(value)))
    ELSE PyStr(Strip(value))

\* Python's truth value of x: what "if not data.get(key)" tests
Truthy(x) ==
    CASE x.t = "None" -> FALSE
      [] x.t = "str" -> x.v # <<>>
      [] x.t = "int" -> x.v # <<"0">>
      [] x.t = "float" -> x.v # <<"0", ".", "0">>
      [] OTHER -> TRUE

----------------------------------------------------------------------------
(* SQLite values and parameter binding *)

SqlNull == [t |-> "null", v |-> <<>>]

SqlText(s) == [t |-> "text", v |-> s]

\* 2^63 - 1, the largest integer sqlite3 binds
MaxInt64Digits ==
    <<"9", "2", "2", "3", "3", "7", "2", "0", "3", "6", "8", "5", "4", "7", "7", "5", "8", "0", "7">>

DigitVal(c) == CHOOSE n \in 0..9 : <<"0", "1", "2", "3", "4", "5", "6", "7", "8", "9">>[n + 1] = c

\* a <= b for two digit sequences of the same length
RECURSIVE DigitsLeq(_, _)
DigitsLeq(a, b) ==
    IF a = <<>> THEN TRUE
    ELSE IF DigitVal(Head(a)) < DigitVal(Head(b)) THEN TRUE
    ELSE IF DigitVal(Head(a)) > DigitVal(Head(b)) THEN FALSE
    ELSE DigitsLeq(Tail(a), Tail(b))

\* sqlite3 raises OverflowError when asked to bind an int beyond 64 bits
BindOverflows(x) ==
    /\ x.t = "int"
    /\ \/ Len(x.v) > Len(MaxInt64Digits)
       \/ Len(x.v) = Len(MaxInt64Digits) /\ ~DigitsLeq(x.v, MaxInt64Digits)

\* the value a TEXT column holds after x is bound to it: None and NaN are NULL
Bind(x) ==
    IF x.t = "None" \/ x = NaN THEN SqlNull ELSE SqlText(x.v)

----------------------------------------------------------------------------
(* The store: one bag of rows per table (database.py, _init_schema).  The  *)
(* rows keep the key column, the columns the lookups and joins read, and    *)
(* raw_json; the other columns are written and read exactly like `model`.   *)

Tables ==
    {"aircraft_models", "engines", "aircraft_registry", "dealers", "aircraft_deregistered",
     "custom_data"}

EmptyStore == [tb \in Tables |-> EmptyBag]

RowCount(table) == BagCardinality(table)

\* `table` with n more copies of row r
BagAdd(table, r, n) ==
    [x \in BagToSet(table) \cup {r} |->
        IF x = r THEN CopiesIn(r, table) + n ELSE table[x]]

\* `table` without the rows of `rows`
BagWithout(table, rows) == [x \in BagToSet(table) \ rows |-> table[x]]

\* the rows a UNIQUE key column makes the new row conflict with: NULL never conflicts
Conflicts(table, keycol, new) ==
    {r \in BagToSet(table) : new[keycol] # SqlNull /\ r[keycol] = new[keycol]}

\* get_connection: commit when the body returns, rollback when it raises
\* a context manager that commits whatever the body wrote
get_connection_commit_in_finally(before, body) == body.db

get_connection(before, body) == IF body.raised # "" THEN before ELSE body.db

\* what goes wrong in the storage engine during one statement or commit
Faults == {"none", "execute", "commit"}

\* an insert that deletes on conflict: the stored row goes and nothing is
\* written in its place
insert_aircraft_models_deleting(table, new) ==
    LET hit == Conflicts(table, "code", new)
    IN  IF hit = {} THEN BagAdd(table, new, 1) ELSE BagWithout(table, hit)

\* INSERT INTO aircraft_models ... ON CONFLICT(code) DO UPDATE SET ...
insert_aircraft_models(table, new) ==
    LET hit == Conflicts(table, "code", new)
        upd(r) == [r EXCEPT !.model = new.model, !.raw_json = new.raw_json]
        RECURSIVE Apply(_, _)
        Apply(t, rs) ==
            IF rs = {} THEN t
            ELSE LET r == CHOOSE x \in rs : TRUE
                 IN  Apply(BagAdd(BagWithout(t, {r}), upd(r), t[r]), rs \ {r})
    IN  IF hit = {} THEN BagAdd(table, new, 1) ELSE Apply(table, hit)

\* INSERT INTO engines ... ON CONFLICT(code) DO UPDATE SET ...
insert_engines(table, new) ==
    LET hit == Conflicts(table, "code", new)
        upd(r) == [r EXCEPT !.model = new.model, !.raw_json = new.raw_json]
        RECURSIVE Apply(_, _)
        Apply(t, rs) ==
            IF rs = {} THEN t
            ELSE LET r == CHOOSE x \in rs : TRUE
                 IN  Apply(BagAdd(BagWithout(t, {r}), upd(r), t[r]), rs \ {r})
    IN  IF hit = {} THEN BagAdd(table, new, 1) ELSE Apply(table, hit)

\* INSERT INTO aircraft_registry ... ON CONFLICT(n_number) DO UPDATE SET ...
insert_aircraft_registry(table, new) ==
    LET hit == Conflicts(table, "n_number", new)
        upd(r) == [r EXCEPT !.mfr_mdl_code = new.mfr_mdl_code,
                            !.eng_mfr_mdl = new.eng_mfr_mdl,
                            !.mode_s_code_hex = new.mode_s_code_hex,
                            !.raw_json = new.raw_json]
        RECURSIVE Apply(_, _)
        Apply(t, rs) ==
            IF rs = {} THEN t
            ELSE LET r == CHOOSE x \in rs : TRUE
                 IN  Apply(BagAdd(BagWithout(t, {r}), upd(r), t[r]), rs \ {r})
    IN  IF hit = {} THEN BagAdd(table, new, 1) ELSE Apply(table, hit)

\* the exception one statement with these parameters ends with, "" for none
ExecuteRaises(params, fault) ==
    IF \E i \in 1..Len(params) : BindOverflows(params[i]) THEN "OverflowError"
    ELSE IF fault = "execute" THEN "OperationalError"
    ELSE ""

\* the body of a `with self.get_connection()` block holding one statement:
\* the statement, then the commit of get_connection
OneStatement(d, params, fault, written) ==
    IF ExecuteRaises(params, fault) # ""
    THEN [raised |-> ExecuteRaises(params, fault), db |-> d]
    ELSE [raised |-> IF fault = "commit" THEN "OperationalError" ELSE "", db |-> written]

\* data.get(col)
Get(data, col) == IF col \in DOMAIN data THEN data[col] ELSE PyNone

\* upsert_aircraft_model(data): [raised, db]
upsert_aircraft_model(d, data, fault) ==
    LET new == [code |-> Bind(Get(data, "code")), model |-> Bind(Get(data, "model")),
                raw_json |-> data]
        body == OneStatement(d, <<Get(data, "code"), Get(data, "model")>>, fault,
                    [d EXCEPT !.aircraft_models = insert_aircraft_models(@, new)])
    IN  [raised |-> body.raised, db |-> get_connection(d, body)]

\* upsert_engine(data): [raised, db]
upsert_engine(d, data, fault) ==
    LET new == [code |-> Bind(Get(data, "code")), model |-> Bind(Get(data, "model")),
                raw_json |-> data]
        body == OneStatement(d, <<Get(data, "code"), Get(data, "model")>>, fault,
                    [d EXCEPT !.engines = insert_engines(@, new)])
    IN  [raised |-> body.raised, db |-> get_connection(d, body)]

\* upsert_aircraft_registry(data): [raised, db]
upsert_aircraft_registry(d, data, fault) ==
    LET new == [n_number |-> Bind(Get(data, "n_number")),
                mfr_mdl_code |-> Bind(Get(data, "mfr_mdl_code")),
                eng_mfr_mdl |-> Bind(Get(data, "eng_mfr_mdl")),
                mode_s_code_hex |-> Bind(Get(data, "mode_s_code_hex")),
                raw_json |-> data]
        body == OneStatement(d,
                    <<Get(data, "n_number"), Get(data, "mfr_mdl_code"),
                      Get(data, "eng_mfr_mdl"), Get(data, "mode_s_code_hex")>>,
                    fault,
                    [d EXCEPT !.aircraft_registry = insert_aircraft_registry(@, new)])
    IN  [raised |-> body.raised, db |-> get_connection(d, body)]

----------------------------------------------------------------------------
(* Raw queries: execute_query and what sqlite3's Connection.execute does    *)
(* with the text it is handed.                                             *)

\* "SELECT 1"
Q_SELECT_1 ==
   <<"S", "E", "L", "E", "C", "T", " ", "1">>

\* "\tselect 1\n"
Q_select_padded ==
   <<"\t", "s", "e", "l", "e", "c", "t", " ", "1", "\n">>

\* "select 1;"
Q_select_semicolon ==
   <<"s", "e", "l", "e", "c", "t", " ", "1", ";">>

\* "DELETE FROM engines"
Q_DELETE ==
   <<"D", "E", "L", "E", "T", "E", " ", "F", "R", "O", "M", " ", "e", "n", "g", "i", "n",
    "e", "s">>

\* "select 1; drop table x"
Q_select_drop_x ==
   <<"s", "e", "l", "e", "c", "t", " ", "1", ";", " ", "d", "r", "o", "p", " ", "t", "a",
    "b", "l", "e", " ", "x">>

\* "select 1; drop table engines"
Q_select_drop ==
   <<"s", "e", "l", "e", "c", "t", " ", "1", ";", " ", "d", "r", "o", "p", " ", "t", "a",
    "b", "l", "e", " ", "e", "n", "g", "i", "n", "e", "s">>

\* "drop table engines; select 1"
Q_drop_select ==
   <<"d", "r", "o", "p", " ", "t", "a", "b", "l", "e", " ", "e", "n", "g", "i", "n", "e",
    "s", ";", " ", "s", "e", "l", "e", "c", "t", " ", "1">>

\* "SELECTED"
Q_SELECTED ==
   <<"S", "E", "L", "E", "C", "T", "E", "D">>

\* " "
Q_blank ==
   <<" ">>

Queries ==
    {Q_SELECT_1, Q_select_padded, Q_select_semicolon, Q_DELETE,
     Q_select_drop_x, Q_select_drop, Q_drop_select, Q_SELECTED,
     Q_blank}

KW_SELECT == <<"S", "E", "L", "E", "C", "T">>

KW_DELETE == <<"D", "E", "L", "E", "T", "E">>

KW_DROP == <<"D", "R", "O", "P">>

\* the position of the first ";" of s, 0 when there is none
SemicolonAt(s) ==
    IF \E i \in 1..Len(s) : s[i] = ";"
    THEN CHOOSE i \in 1..Len(s) : s[i] = ";" /\ \A j \in 1..(i - 1) : s[j] # ";"
    ELSE 0

\* the statements of a text, split at ";"
RECURSIVE Statements(_)
Statements(s) ==
    IF SemicolonAt(s) = 0 THEN IF Strip(s) = <<>> THEN <<>> ELSE <<Strip(s)>>
    ELSE (IF Strip(SubSeq(s, 1, SemicolonAt(s) - 1)) = <<>> THEN <<>>
          ELSE <<Strip(SubSeq(s, 1, SemicolonAt(s) - 1))>>)
         \o Statements(SubSeq(s, SemicolonAt(s) + 1, Len(s)))

\* the first word of a stripped text, and the last
RECURSIVE FirstWord(_)
FirstWord(s) ==
    IF s = <<>> \/ Head(s) \in Whitespace THEN <<>> ELSE <<Head(s)>> \o FirstWord(Tail(s))

RECURSIVE LastWord(_)
LastWord(s) ==
    IF s = <<>> \/ s[Len(s)] \in Whitespace THEN <<>>
    ELSE LastWord(SubSeq(s, 1, Len(s) - 1)) \o <<s[Len(s)]>>

\* the table a name spells; the queries of the model name engines or no table
TableNamed(name) ==
    IF Upper(name) = <<"E", "N", "G", "I", "N", "E", "S">> THEN "engines" ELSE ""

\* SQLite running one statement: [raised, db]
RunStatement(d, stmt) ==
    LET kw == Upper(FirstWord(stmt))
        tb == TableNamed(LastWord(stmt))
    IN  IF kw = KW_SELECT THEN [raised |-> "", db |-> d]
        ELSE IF kw \in {KW_DELETE, KW_DROP}
        THEN IF tb = "" THEN [raised |-> "OperationalError", db |-> d]
             ELSE [raised |-> "", db |-> [d EXCEPT ![tb] = EmptyBag]]
        ELSE [raised |-> "OperationalError", db |-> d]

\* executescript in place of execute: every statement of the text is run
conn_execute_script(d, query, fault) ==
    LET RECURSIVE Run(_, _)
        Run(x, sts) ==
            IF sts = <<>> THEN [raised |-> "", db |-> x]
            ELSE IF RunStatement(x, Head(sts)).raised # "" THEN RunStatement(x, Head(sts))
            ELSE Run(RunStatement(x, Head(sts)).db, Tail(sts))
    IN  IF fault = "execute" THEN [raised |-> "OperationalError", db |-> d]
        ELSE Run(d, Statements(query))

\* conn.execute(query): sqlite3 runs one statement and refuses a text that
\* holds more than one
conn_execute(d, query, fault) ==
    IF Len(Statements(query)) > 1 THEN [raised |-> "ProgrammingError", db |-> d]
    ELSE IF Statements(query) = <<>> THEN [raised |-> "", db |-> d]
    ELSE IF fault = "execute" THEN [raised |-> "OperationalError", db |-> d]
    ELSE LET r == RunStatement(d, Statements(query)[1])
         IN  IF r.raised = "" /\ fault = "commit"
             THEN [raised |-> "OperationalError", db |-> r.db]
             ELSE r

\* a guard that looks for the keyword anywhere in the text
IsSelectQuery_anywhere(query) ==
    \E i \in 1..Len(query) : StartsWith(SubSeq(Upper(query), i, Len(query)), KW_SELECT)

\* the guard of execute_query
IsSelectQuery(query) == StartsWith(Upper(Strip(query)), KW_SELECT)

\* execute_query(query): [raised, db, opened, reached]; opened tells whether a
\* connection was opened, reached is the text handed to the store's engine
execute_query(d, query, fault) ==
    IF ~IsSelectQuery(query)
    THEN [raised |-> "ValueError", db |-> d, opened |-> FALSE, reached |-> <<>>]
    ELSE LET body == conn_execute(d, query, fault)
         IN  [raised |-> body.raised, db |-> get_connection(d, body),
              opened |-> TRUE, reached |-> <<query>>]

----------------------------------------------------------------------------
(* Point lookups and joined lookups.  fetchone() returns one matching row, *)
(* and which one when several match is the engine's choice: each lookup    *)
(* is the set of values the call may return.                               *)

NoRow == [found |-> FALSE, row |-> <<>>]

FetchOne(rows) == IF rows = {} THEN {NoRow} ELSE {[found |-> TRUE, row |-> r] : r \in rows}

\* get_aircraft_model(code)
get_aircraft_model(d, code) ==
    FetchOne({r \in BagToSet(d.aircraft_models) : r.code = SqlText(code)})

\* get_engine(code)
get_engine(d, code) ==
    FetchOne({r \in BagToSet(d.engines) : r.code = SqlText(code)})

\* get_aircraft_by_n_number(n_number)
get_aircraft_by_n_number(d, n_number) ==
    FetchOne({r \in BagToSet(d.aircraft_registry) : r.n_number = SqlText(Upper(n_number))})

\* get_aircraft_by_mode_s_hex(mode_s_hex)
get_aircraft_by_mode_s_hex(d, mode_s_hex) ==
    FetchOne({r \in BagToSet(d.aircraft_registry) :
                 r.mode_s_code_hex = SqlText(Upper(mode_s_hex))})

\* the column `col` of the rows LEFT JOINed to a row on code = ref: NULL when none matches
LeftJoin(table, ref, col) ==
    LET ms == {m \in BagToSet(table) : ref # SqlNull /\ m.code = ref}
    IN  IF ms = {} THEN {SqlNull} ELSE {m[col] : m \in ms}

\* r.* with the joined columns of aircraft_models m and engines e
JoinedRows(d, entries) ==
    {[entry |-> r, model_name |-> mn, engine_model |-> em] :
        r \in entries,
        mn \in UNION {LeftJoin(d.aircraft_models, x.mfr_mdl_code, "model") : x \in entries},
        em \in UNION {LeftJoin(d.engines, x.eng_mfr_mdl, "model") : x \in entries}}

\* get_aircraft_with_model_info(n_number)
get_aircraft_with_model_info(d, n_number) ==
    FetchOne(UNION {JoinedRows(d, {r}) :
        r \in {x \in BagToSet(d.aircraft_registry) : x.n_number = SqlText(Upper(n_number))}})

\* get_aircraft_by_mode_s_with_details(mode_s_hex)
get_aircraft_by_mode_s_with_details(d, mode_s_hex) ==
    FetchOne(UNION {JoinedRows(d, {r}) :
        r \in {x \in BagToSet(d.aircraft_registry) :
                  x.mode_s_code_hex = SqlText(Upper(mode_s_hex))}})

----------------------------------------------------------------------------
(* Statistics *)

StatsTables ==
    {"aircraft_models", "engines", "aircraft_registry", "dealers", "aircraft_deregistered"}

\* get_stats(): the row count of each table it lists
get_stats(d) == [tb \in StatsTables |-> RowCount(d[tb])]

----------------------------------------------------------------------------
(* Authority files (ingest.py).  A file is absent, unreadable, empty (no    *)
(* header line) or text: a header and rows of cells, each cell a text.      *)
(* Header names are written as the file's tokens after strip().             *)

Kinds == {"acftref", "engine", "master"}

\* ACFTREF_COLUMNS, ENGINE_COLUMNS, MASTER_COLUMNS: the columns the store rows keep
ACFTREF_COLUMNS == [h \in {"CODE", "MODEL"} |-> IF h = "CODE" THEN "code" ELSE "model"]

ENGINE_COLUMNS == [h \in {"CODE", "MODEL"} |-> IF h = "CODE" THEN "code" ELSE "model"]

MASTER_COLUMNS ==
    [h \in {"N-NUMBER", "MFR MDL CODE", "ENG MFR MDL", "MODE S CODE HEX"} |->
        CASE h = "N-NUMBER" -> "n_number"
          [] h = "MFR MDL CODE" -> "mfr_mdl_code"
          [] h = "ENG MFR MDL" -> "eng_mfr_mdl"
          [] h = "MODE S CODE HEX" -> "mode_s_code_hex"]

ColumnMapping(kind) ==
    CASE kind = "acftref" -> ACFTREF_COLUMNS
      [] kind = "engine" -> ENGINE_COLUMNS
      [] kind = "master" -> MASTER_COLUMNS

FileName(kind) ==
    CASE kind = "acftref" -> "ACFTREF.txt"
      [] kind = "engine" -> "ENGINE.txt"
      [] kind = "master" -> "MASTER.txt"

\* the key each ingest_* tests with data.get before it upserts
KeyField(kind) == IF kind = "master" THEN "n_number" ELSE "code"

TableOf(kind) ==
    CASE kind = "acftref" -> "aircraft_models"
      [] kind = "engine" -> "engines"
      [] kind = "master" -> "aircraft_registry"

\* parse_faa_csv skips a row that is empty or whose cells are all blank
IsBlankRow(row) == row = <<>> \/ \A i \in 1..Len(row) : Strip(row[i]) = <<>>

MaxOf(S) == CHOOSE x \in S : \A y \in S : y <= x

\* parse_faa_csv, one row: the mapped columns the row has a cell for, each
\* through parse_value, and _raw: every header name with its stripped cell
ParseRow(header, mapping, row) ==
    LET mapped == {i \in 1..Len(row) : i <= Len(header) /\ header[i] \in DOMAIN mapping}
        names == {mapping[header[i]] : i \in mapped}
        cell(n) == row[MaxOf({i \in mapped : mapping[header[i]] = n})]
        hnames == {header[i] : i \in 1..Len(header)}
        at(h) == MaxOf({i \in 1..Len(header) : header[i] = h})
        raw == [h \in hnames |-> IF at(h) <= Len(row) THEN Strip(row[at(h)]) ELSE <<>>]
    IN  [n \in names \cup {"_raw"} |-> IF n = "_raw" THEN raw ELSE parse_value(cell(n))]

\* the exception parse_faa_csv raises before it yields a first record, "" for none:
\* detect_encoding opens the file, next(reader) wants a header line
ParseRaises(file) ==
    CASE file.state = "unreadable" -> "PermissionError"
      [] file.state = "empty" -> "RuntimeError"
      [] OTHER -> ""

\* the upsert each ingest_* calls
Upsert(kind, d, data, fault) ==
    CASE kind = "acftref" -> upsert_aircraft_model(d, data, fault)
      [] kind = "engine" -> upsert_engine(d, data, fault)
      [] kind = "master" -> upsert_aircraft_registry(d, data, fault)

\* a loop that counts a record without a key as an error
ingest_record_missing_key_as_error(kind, d, count, errors, header, row, fault) ==
    IF IsBlankRow(row)
    THEN [db |-> d, count |-> count, errors |-> errors, outcome |-> "blank"]
    ELSE LET data == ParseRow(header, ColumnMapping(kind), row)
             r == Upsert(kind, d, data, fault)
         IN  IF ~Truthy(Get(data, KeyField(kind)))
             THEN [db |-> d, count |-> count, errors |-> errors + 1, outcome |-> "dropped"]
             ELSE IF r.raised = ""
             THEN [db |-> r.db, count |-> count + 1, errors |-> errors, outcome |-> "stored"]
             ELSE [db |-> r.db, count |-> count, errors |-> errors + 1, outcome |-> "error"]

\* a loop that counts the record before the upsert has returned
ingest_record_counting_first(kind, d, count, errors, header, row, fault) ==
    IF IsBlankRow(row)
    THEN [db |-> d, count |-> count, errors |-> errors, outcome |-> "blank"]
    ELSE LET data == ParseRow(header, ColumnMapping(kind), row)
             r == Upsert(kind, d, data, fault)
         IN  IF ~Truthy(Get(data, KeyField(kind)))
             THEN [db |-> d, count |-> count, errors |-> errors, outcome |-> "dropped"]
             ELSE IF r.raised = ""
             THEN [db |-> r.db, count |-> count + 1, errors |-> errors, outcome |-> "stored"]
             ELSE [db |-> r.db, count |-> count + 1, errors |-> errors + 1,
                   outcome |-> "error"]

\* one turn of the loop of ingest_acftref, ingest_engines or ingest_master on
\* a row of the file: [db, count, errors, outcome]
ingest_record(kind, d, count, errors, header, row, fault) ==
    IF IsBlankRow(row)
    THEN [db |-> d, count |-> count, errors |-> errors, outcome |-> "blank"]
    ELSE LET data == ParseRow(header, ColumnMapping(kind), row)
             r == Upsert(kind, d, data, fault)
         IN  IF ~Truthy(Get(data, KeyField(kind)))
             THEN [db |-> d, count |-> count, errors |-> errors, outcome |-> "dropped"]
             ELSE IF r.raised = ""
             THEN [db |-> r.db, count |-> count + 1, errors |-> errors, outcome |-> "stored"]
             ELSE [db |-> r.db, count |-> count, errors |-> errors + 1, outcome |-> "error"]

----------------------------------------------------------------------------
(* Secondary files.  A file has a name, a suffix and, for a readable one,   *)
(* units: the list of a .json file, the rows of a .csv file, the sheets of  *)
(* an .xlsx file.  A unit has n records; ok = FALSE says reading fails      *)
(* after them (undecodable bytes, a sheet that cannot be parsed).           *)

\* INSERT INTO custom_data, n times: one row per record, told apart by position
CustomRows(file, table, n) ==
    SetToBag({[source_file |-> file.name, table_name |-> table, data_json |-> i] : i \in 1..n})

\* the counts a file's ingestion returns for the summary
Counted(n) == [count |-> n, error |-> ""]

\* ingest_json(file_path, database): [raised, db, stat]
ingest_json(d, file) ==
    IF file.shape = "malformed"
    THEN [raised |-> "JSONDecodeError", db |-> d, stat |-> Counted(0)]
    ELSE IF file.shape = "list"
    THEN LET u == file.units[1]
             body == [raised |-> IF u.ok THEN "" ELSE "OperationalError",
                      db |-> [d EXCEPT !.custom_data = @ (+) CustomRows(file, "data", u.n)]]
         IN  [raised |-> body.raised, db |-> get_connection(d, body), stat |-> Counted(u.n)]
    ELSE IF file.shape = "dict"
    THEN LET body == [raised |-> "",
                      db |-> [d EXCEPT !.custom_data = @ (+) CustomRows(file, "data", 1)]]
         IN  [raised |-> "", db |-> get_connection(d, body), stat |-> Counted(1)]
    ELSE [raised |-> "", db |-> d, stat |-> Counted(0)]

\* the .csv branch of ingest_directory: every row in one connection
ingest_csv(d, file) ==
    IF file.shape = "unreadable"
    THEN [raised |-> "PermissionError", db |-> d, stat |-> Counted(0)]
    ELSE LET u == file.units[1]
             body == [raised |-> IF u.ok THEN "" ELSE "UnicodeDecodeError",
                      db |-> [d EXCEPT !.custom_data = @ (+) CustomRows(file, file.stem, u.n)]]
         IN  [raised |-> body.raised, db |-> get_connection(d, body), stat |-> Counted(u.n)]

\* the sheets of ingest_xlsx from sheet i on: one connection per row, a sheet
\* is read whole before its rows are inserted
RECURSIVE xlsx_sheets(_, _, _)
xlsx_sheets(d, file, i) ==
    IF i > Len(file.units)
    THEN [raised |-> "", db |-> d]
    ELSE LET u == file.units[i]
         IN  IF ~u.ok
             THEN [raised |-> "ParseError", db |-> d]
             ELSE xlsx_sheets(
                      [d EXCEPT !.custom_data =
                          @ (+) CustomRows(file, <<"sheet", i>>, u.n)],
                      file, i + 1)

\* ingest_xlsx(file_path, database): [raised, db, stat]; without openpyxl it
\* returns {'error': ...} and raises nothing
ingest_xlsx(d, file, openpyxl) ==
    IF ~openpyxl
    THEN [raised |-> "", db |-> d, stat |-> [count |-> 0, error |-> "openpyxl not installed"]]
    ELSE IF file.shape = "corrupt"
    THEN [raised |-> "BadZipFile", db |-> d, stat |-> Counted(0)]
    ELSE LET r == xlsx_sheets(d, file, 1)
         IN  [raised |-> r.raised, db |-> r.db, stat |-> Counted(Len(file.units))]

\* a loop that files an unsupported entry under 'error' and also as processed
ingest_other_unsupported_as_error(d, file, openpyxl) ==
    IF file.suffix \notin {".xlsx", ".json", ".csv"}
    THEN [db |-> d, processed |-> TRUE, skipped |-> "error",
          text |-> "unsupported format", stat |-> Counted(0)]
    ELSE [db |-> d, processed |-> TRUE, skipped |-> "", text |-> "", stat |-> Counted(0)]

\* one turn of the loop over data_dir.iterdir(): [db, processed, skipped, stat]
\* skipped is "" or the key of the entry appended to files_skipped
ingest_other(d, file, openpyxl) ==
    LET r == CASE file.suffix = ".xlsx" -> ingest_xlsx(d, file, openpyxl)
               [] file.suffix = ".json" -> ingest_json(d, file)
               [] file.suffix = ".csv" -> ingest_csv(d, file)
               [] OTHER -> [raised |-> "", db |-> d, stat |-> Counted(0)]
    IN  IF file.suffix \notin {".xlsx", ".json", ".csv"}
        THEN [db |-> d, processed |-> FALSE, skipped |-> "reason",
              text |-> "unsupported format", stat |-> Counted(0)]
        ELSE IF r.raised # ""
        THEN [db |-> r.db, processed |-> FALSE, skipped |-> "error",
              text |-> r.raised, stat |-> Counted(0)]
        ELSE [db |-> r.db, processed |-> TRUE, skipped |-> "", text |-> "", stat |-> r.stat]

----------------------------------------------------------------------------
(* ingest_directory(data_dir, database), one step per record of an          *)
(* authority file and one step per secondary file                           *)

NoFile == [state |-> "absent", header |-> <<>>, rows |-> <<>>]

NoDirectory ==
    [exists |-> FALSE, acftref |-> NoFile, engine |-> NoFile, master |-> NoFile,
     others |-> <<>>]

\* no earlier run to compare with
NoSnapshot == [db |-> EmptyStore, ing |-> <<>>]

\* the call before it starts: results = {'files_processed': [], 'files_skipped': [],
\* 'stats': {}}, and the counters of FAAAircraftIngest.__init__
NotCalled ==
    [pc |-> "idle", run |-> 1, cursor |-> 0, count |-> 0, errors |-> 0, faults |-> 0,
     files_processed |-> <<>>, files_skipped |-> <<>>, stats |-> <<>>,
     database_stats |-> <<>>, error |-> "", log |-> <<>>]

\* a run that takes the registry before the engines
AfterKind_registry_first(kind) ==
    CASE kind = "acftref" -> "master"
      [] kind = "master" -> "engine"
      [] kind = "engine" -> "others"

\* the step after an authority file
AfterKind(kind) ==
    CASE kind = "acftref" -> "engine"
      [] kind = "engine" -> "master"
      [] kind = "master" -> "others"

\* a start that goes to the files without looking at the directory
IngestDirectoryStart_without_check ==
    /\ ing.pc = "idle"
    /\ ing' = [ing EXCEPT !.pc = "acftref"]
    /\ UNCHANGED <<db, dir, env, snap>>
    /\ UNCHANGED notIngVars

\* if not data_dir.exists(): return {'error': ...}; else the authority files
IngestDirectoryStart ==
    /\ ing.pc = "idle"
    /\ ing' = IF ~dir.exists
              THEN [ing EXCEPT !.pc = "returned", !.error = "Directory not found"]
              ELSE [ing EXCEPT !.pc = "acftref"]
    /\ UNCHANGED <<db, dir, env, snap>>
    /\ UNCHANGED notIngVars

\* if <file>.exists(): ingest_*(file) up to the first record parse_faa_csv yields
BeginAuthority ==
    /\ ing.pc \in Kinds
    /\ ing.cursor = 0
    /\ LET kind == ing.pc
           file == dir[kind]
       IN  ing' = IF file.state = "absent"
                  THEN [ing EXCEPT !.pc = AfterKind(kind)]
                  ELSE IF ParseRaises(file) # ""
                  THEN [ing EXCEPT !.pc = "raised", !.error = ParseRaises(file)]
                  ELSE [ing EXCEPT !.cursor = 1, !.count = 0]
    /\ UNCHANGED <<db, dir, env, snap>>
    /\ UNCHANGED notIngVars

\* the faults an upsert of the call may meet
MaxFaults == 1

FaultChoices == IF ing.faults < env.faults THEN Faults ELSE {"none"}

\* one row of the authority file through the loop of its ingest_*
IngestRecord ==
    /\ ing.pc \in Kinds
    /\ ing.cursor \in 1..Len(dir[ing.pc].rows)
    /\ \E fault \in FaultChoices :
        LET kind == ing.pc
            file == dir[kind]
            r == ingest_record(kind, db, ing.count, ing.errors, file.header,
                               file.rows[ing.cursor], fault)
            met == fault # "none" /\ r.outcome = "error"
        IN  /\ fault # "none" => r.outcome = "error"
            /\ db' = r.db
            /\ ing' = [ing EXCEPT !.cursor = @ + 1, !.count = r.count, !.errors = r.errors,
                                  !.faults = IF met THEN @ + 1 ELSE @,
                                  !.log = Append(@, [run |-> ing.run, kind |-> kind,
                                                     row |-> ing.cursor,
                                                     outcome |-> r.outcome])]
    /\ UNCHANGED <<dir, env, snap>>
    /\ UNCHANGED notIngVars

\* the end of ingest_*: its count goes to results['stats'], its name to files_processed
EndAuthority ==
    /\ ing.pc \in Kinds
    /\ ing.cursor = Len(dir[ing.pc].rows) + 1
    /\ LET kind == ing.pc
       IN  ing' = [ing EXCEPT !.pc = AfterKind(kind), !.cursor = 0,
                              !.stats = (kind :> Counted(ing.count)) @@ @,
                              !.files_processed = Append(@, FileName(kind))]
    /\ UNCHANGED <<db, dir, env, snap>>
    /\ UNCHANGED notIngVars

\* one entry of data_dir.iterdir() that is not an authority file
IngestOther ==
    /\ ing.pc = "others"
    /\ ing.cursor < Len(dir.others)
    /\ LET file == dir.others[ing.cursor + 1]
           r == ingest_other(db, file, env.openpyxl)
       IN  /\ db' = r.db
           /\ ing' = [ing EXCEPT
                  !.cursor = @ + 1,
                  !.stats = IF r.processed THEN (file.name :> r.stat) @@ @ ELSE @,
                  !.files_processed = IF r.processed THEN Append(@, file.name) ELSE @,
                  !.files_skipped =
                      IF r.skipped = "" THEN @
                      ELSE Append(@, [file |-> file.name, key |-> r.skipped,
                                      text |-> r.text])]
    /\ UNCHANGED <<dir, env, snap>>
    /\ UNCHANGED notIngVars

\* results['database_stats'] = database.get_stats(); return results
IngestDirectoryReturn ==
    /\ ing.pc = "others"
    /\ ing.cursor = Len(dir.others)
    /\ ing' = [ing EXCEPT !.pc = "returned", !.database_stats = get_stats(db)]
    /\ UNCHANGED <<db, dir, env, snap>>
    /\ UNCHANGED notIngVars

\* the dict ingest_directory returns, read when the call has returned
results ==
    IF ~dir.exists
    THEN [error |-> ing.error]
    ELSE [files_processed |-> ing.files_processed, files_skipped |-> ing.files_skipped,
          stats |-> ing.stats, database_stats |-> ing.database_stats]

\* the process running ingest_directory is terminated between two steps
Terminate ==
    /\ ing.pc \in Kinds \cup {"others"}
    /\ ing' = [ing EXCEPT !.pc = "killed"]
    /\ UNCHANGED <<db, dir, env, snap>>
    /\ UNCHANGED notIngVars

\* the caller calls ingest_directory a second time on the unchanged directory
Rerun ==
    /\ ing.pc \in {"returned", "raised", "killed"}
    /\ ing.run = 1
    /\ snap' = [snap EXCEPT !.db = db, !.ing = ing]
    /\ ing' = [NotCalled EXCEPT !.run = 2, !.faults = ing.faults, !.log = ing.log]
    /\ UNCHANGED <<db, dir, env>>
    /\ UNCHANGED notIngVars

----------------------------------------------------------------------------
(* The calls of the store API and their arguments *)

\* the most rows with a NULL key the store is let to collect
MaxNullRows == 2

T_X1 == <<"X", "1">>

T_Q9 == <<"Q", "9">>

T_E1 == <<"E", "1">>

T_N1 == <<"N", "1">>

T_n1 == <<"n", "1">>

T_AB == <<"A", "B">>

T_ab == <<"a", "b">>

T_Z == <<"Z">>

T_Z2 == <<"Z", "2">>

T_7 == <<"7">>

T_0 == <<"0">>

\* twenty digits: more than a 64-bit integer holds
T_Big ==
    <<"9", "9", "9", "9", "9", "9", "9", "9", "9", "9", "9", "9", "9", "9", "9", "9", "9", "9", "9", "9">>

ModelData ==
    {[code |-> PyStr(T_X1), model |-> PyStr(T_Z)],
     [code |-> PyStr(T_X1), model |-> PyStr(T_Z2)],
     [code |-> PyStr(T_X1), model |-> PyInt(T_Big)],
     [code |-> PyNone, model |-> PyStr(T_Z)]}

EngineData ==
    {[code |-> PyStr(T_E1), model |-> PyStr(T_Z)],
     [code |-> PyStr(T_E1), model |-> PyStr(T_Z2)],
     [code |-> PyNone, model |-> PyStr(T_Z)]}

RegistryData ==
    {[n_number |-> PyStr(T_N1), mfr_mdl_code |-> PyStr(T_X1), eng_mfr_mdl |-> PyStr(T_E1),
      mode_s_code_hex |-> PyStr(T_AB)],
     [n_number |-> PyStr(T_N1), mfr_mdl_code |-> PyStr(T_Q9), eng_mfr_mdl |-> PyNone,
      mode_s_code_hex |-> PyStr(T_AB)],
     [n_number |-> PyStr(T_n1), mfr_mdl_code |-> PyStr(T_X1), eng_mfr_mdl |-> PyStr(T_E1),
      mode_s_code_hex |-> PyStr(T_ab)],
     [n_number |-> PyNone, mfr_mdl_code |-> PyStr(T_X1), eng_mfr_mdl |-> PyStr(T_E1),
      mode_s_code_hex |-> PyNone]}

NullKeyRows(table, keycol) ==
    BagCardinality([r \in {x \in BagToSet(table) : x[keycol] = SqlNull} |-> table[r]])

\* whether the store may collect one more row with a NULL key
RoomForNullKey(d) ==
    NullKeyRows(d.aircraft_models, "code") + NullKeyRows(d.engines, "code")
        + NullKeyRows(d.aircraft_registry, "n_number") < MaxNullRows

\* the history after a call that stored `row` under `key` of table tb
Remember(h, tb, key, row) ==
    [h EXCEPT ![tb] = [k \in DOMAIN @ \cup {key} |-> IF k = key THEN row ELSE @[k]]]

\* one call: its name, its argument, the fault the engine was given to hit,
\* the exception it raised ("" for none) and what it returned
Call(op, arg, fault, raised, result) ==
    [op |-> op, arg |-> arg, fault |-> fault, raised |-> raised, result |-> result]

UpsertModel ==
    \E data \in ModelData, fault \in Faults :
        LET r == upsert_aircraft_model(db, data, fault)
        IN  /\ Bind(data.code) = SqlNull => RoomForNullKey(db)
            /\ db' = r.db
            /\ last' = Call("upsert_aircraft_model", data, fault, r.raised, r.raised = "")
            /\ upserted' = IF r.raised # "" THEN upserted
                           ELSE Remember(upserted, "aircraft_models", Bind(data.code),
                                    [code |-> Bind(data.code), model |-> Bind(data.model),
                                     raw_json |-> data])
            /\ UNCHANGED notApiVars

UpsertEngine ==
    \E data \in EngineData, fault \in Faults :
        LET r == upsert_engine(db, data, fault)
        IN  /\ Bind(data.code) = SqlNull => RoomForNullKey(db)
            /\ db' = r.db
            /\ last' = Call("upsert_engine", data, fault, r.raised, r.raised = "")
            /\ upserted' = IF r.raised # "" THEN upserted
                           ELSE Remember(upserted, "engines", Bind(data.code),
                                    [code |-> Bind(data.code), model |-> Bind(data.model),
                                     raw_json |-> data])
            /\ UNCHANGED notApiVars

UpsertRegistry ==
    \E data \in RegistryData, fault \in Faults :
        LET r == upsert_aircraft_registry(db, data, fault)
        IN  /\ Bind(data.n_number) = SqlNull => RoomForNullKey(db)
            /\ db' = r.db
            /\ last' = Call("upsert_aircraft_registry", data, fault, r.raised, r.raised = "")
            /\ upserted' = IF r.raised # "" THEN upserted
                           ELSE Remember(upserted, "aircraft_registry", Bind(data.n_number),
                                    [n_number |-> Bind(data.n_number),
                                     mfr_mdl_code |-> Bind(data.mfr_mdl_code),
                                     eng_mfr_mdl |-> Bind(data.eng_mfr_mdl),
                                     mode_s_code_hex |-> Bind(data.mode_s_code_hex),
                                     raw_json |-> data])
            /\ UNCHANGED notApiVars

GetModel ==
    \E code \in {T_X1, T_Q9} : \E res \in get_aircraft_model(db, code) :
        /\ last' = Call("get_aircraft_model", code, "none", "", res)
        /\ UNCHANGED <<db, upserted>>
        /\ UNCHANGED notApiVars

GetEngine ==
    \E code \in {T_E1} : \E res \in get_engine(db, code) :
        /\ last' = Call("get_engine", code, "none", "", res)
        /\ UNCHANGED <<db, upserted>>
        /\ UNCHANGED notApiVars

GetByNNumber ==
    \E n \in {T_N1, T_n1} : \E res \in get_aircraft_by_n_number(db, n) :
        /\ last' = Call("get_aircraft_by_n_number", n, "none", "", res)
        /\ UNCHANGED <<db, upserted>>
        /\ UNCHANGED notApiVars

GetByModeS ==
    \E h \in {T_AB, T_ab} : \E res \in get_aircraft_by_mode_s_hex(db, h) :
        /\ last' = Call("get_aircraft_by_mode_s_hex", h, "none", "", res)
        /\ UNCHANGED <<db, upserted>>
        /\ UNCHANGED notApiVars

JoinByNNumber ==
    \E n \in {T_N1, T_n1} : \E res \in get_aircraft_with_model_info(db, n) :
        /\ last' = Call("get_aircraft_with_model_info", n, "none", "", res)
        /\ UNCHANGED <<db, upserted>>
        /\ UNCHANGED notApiVars

JoinByModeS ==
    \E h \in {T_AB, T_ab} : \E res \in get_aircraft_by_mode_s_with_details(db, h) :
        /\ last' = Call("get_aircraft_by_mode_s_with_details", h, "none", "", res)
        /\ UNCHANGED <<db, upserted>>
        /\ UNCHANGED notApiVars

ExecuteQuery ==
    \E query \in Queries, fault \in Faults :
        LET r == execute_query(db, query, fault)
        IN  /\ db' = r.db
            /\ last' = Call("execute_query", query, fault, r.raised,
                            [opened |-> r.opened, reached |-> r.reached])
            /\ UNCHANGED upserted
            /\ UNCHANGED notApiVars

----------------------------------------------------------------------------
(* Searches and stats (database.py, search_aircraft_models,                 *)
(* search_aircraft_registry, get_stats).  A filter is a Python value, None  *)
(* when the caller leaves it out; the result is the bag of rows returned.   *)

\* the value of column col of a stored row: the columns the row does not keep
\* apart hold what the upsert bound from the same key of data
Column(row, col) ==
    IF col \in DOMAIN row THEN row[col] ELSE Bind(Get(row.raw_json, col))

\* text LIKE pattern: % is any run of characters, _ any one character, and
\* letters match in either case
RECURSIVE Like(_, _)
Like(text, pattern) ==
    IF pattern = <<>> THEN text = <<>>
    ELSE IF Head(pattern) = "%"
    THEN Like(text, Tail(pattern)) \/ (text # <<>> /\ Like(Tail(text), pattern))
    ELSE /\ text # <<>>
         /\ Head(pattern) = "_" \/ UpperChar(Head(pattern)) = UpperChar(Head(text))
         /\ Like(Tail(text), Tail(pattern))

\* the integer a run of digits writes
RECURSIVE IntOf(_)
IntOf(digits) ==
    IF digits = <<>> THEN 0
    ELSE 10 * IntOf(SubSeq(digits, 1, Len(digits) - 1)) + DigitVal(digits[Len(digits)])

\* column LIKE '%value%'; a NULL column matches nothing
ColumnLike(row, col, value) ==
    /\ Column(row, col) # SqlNull
    /\ Like(Column(row, col).v, <<"%">> \o value \o <<"%">>)

\* column = value on a TEXT column
ColumnIs(row, col, value) == Column(row, col) = SqlText(value)

\* column = n, column >= n, column <= n on an INTEGER column
ColumnEq(row, col, n) ==
    Column(row, col) # SqlNull /\ IntOf(Column(row, col).v) = IntOf(n.v)

ColumnGeq(row, col, n) ==
    Column(row, col) # SqlNull /\ IntOf(Column(row, col).v) >= IntOf(n.v)

ColumnLeq(row, col, n) ==
    Column(row, col) # SqlNull /\ IntOf(Column(row, col).v) <= IntOf(n.v)

\* the rows of the table that the WHERE clause keeps, as a bag
Where(table, kept) == [r \in BagToSet(table) \cap kept |-> table[r]]

\* LIMIT n: the results the statement may return from the rows that match;
\* SQLite reads a negative n as no limit
Limit(matching, n) ==
    IF n < 0 \/ BagCardinality(matching) <= n THEN {matching}
    ELSE {b \in SubBag(matching) : BagCardinality(b) = n}

\* search_aircraft_models(manufacturer, model, type_aircraft, num_engines, limit)
search_aircraft_models(d, f) ==
    LET keep(r) ==
            /\ Truthy(f.manufacturer) => ColumnLike(r, "manufacturer", f.manufacturer.v)
            /\ Truthy(f.model) => ColumnLike(r, "model", f.model.v)
            /\ f.type_aircraft # PyNone => ColumnEq(r, "type_aircraft", f.type_aircraft)
            /\ f.num_engines # PyNone => ColumnEq(r, "num_engines", f.num_engines)
    IN  Limit(Where(d.aircraft_models, {r \in BagToSet(d.aircraft_models) : keep(r)}), f.limit)

\* search_aircraft_registry(registrant_name, city, state, manufacturer,
\* year_from, year_to, type_aircraft, limit): manufacturer is never read
search_aircraft_registry(d, f) ==
    LET keep(r) ==
            /\ Truthy(f.registrant_name) =>
                    ColumnLike(r, "registrant_name", Upper(f.registrant_name.v))
            /\ Truthy(f.city) => ColumnLike(r, "city", Upper(f.city.v))
            /\ Truthy(f.state) => ColumnIs(r, "state", Upper(f.state.v))
            /\ Truthy(f.year_from) => ColumnGeq(r, "year_mfr", f.year_from)
            /\ Truthy(f.year_to) => ColumnLeq(r, "year_mfr", f.year_to)
            /\ f.type_aircraft # PyNone => ColumnEq(r, "type_aircraft", f.type_aircraft)
    IN  Limit(Where(d.aircraft_registry, {r \in BagToSet(d.aircraft_registry) : keep(r)}),
              f.limit)

T_4 == <<"4">>

T_1 == <<"1">>

\* the values a caller gives a filter: left out, or one of these
Maybe(values) == {PyNone} \cup values

DefaultLimit == 100

\* the limits the caller gives: the default, one row, none, a negative one
Limits == {DefaultLimit, 1, 0, -1}

\* the filters the caller gives
Supplied(f) == {k \in DOMAIN f \ {"limit"} : f[k] # PyNone}

MaxSupplied == 2

\* the calls the searches are checked on: at most MaxSupplied filters given
ModelFilters ==
    {f \in [manufacturer : Maybe({PyStr(T_Z)}),
            model : Maybe({PyStr(T_Z)}),
            type_aircraft : Maybe({PyInt(T_4), PyInt(T_0)}),
            num_engines : Maybe({PyInt(T_1)}),
            limit : Limits] : Cardinality(Supplied(f)) <= MaxSupplied}

RegistryFilters ==
    {f \in [registrant_name : Maybe({PyStr(T_ab)}),
            city : Maybe({PyStr(T_Z)}),
            state : Maybe({PyStr(T_ab)}),
            manufacturer : Maybe({PyStr(T_Z)}),
            year_from : Maybe({PyInt(T_0), PyInt(T_7)}),
            year_to : Maybe({PyInt(T_7)}),
            type_aircraft : Maybe({PyInt(T_4)}),
            limit : Limits] : Cardinality(Supplied(f)) <= MaxSupplied}

\* the aircraft models and the registrations the searches are checked on
SearchModelData ==
    {[code |-> PyStr(T_X1), manufacturer |-> PyStr(T_Z), model |-> PyStr(T_Z2),
      type_aircraft |-> PyInt(T_4), num_engines |-> PyInt(T_1)],
     [code |-> PyStr(T_Q9), manufacturer |-> PyStr(T_AB), model |-> PyStr(T_Z),
      type_aircraft |-> PyInt(T_0), num_engines |-> PyNone]}

SearchRegistryData ==
    {[n_number |-> PyStr(T_N1), mfr_mdl_code |-> PyStr(T_X1), registrant_name |-> PyStr(T_AB),
      city |-> PyStr(T_Z2), state |-> PyStr(T_AB), year_mfr |-> PyInt(T_7),
      type_aircraft |-> PyInt(T_4)],
     [n_number |-> PyStr(T_Z2), mfr_mdl_code |-> PyStr(T_Q9), registrant_name |-> PyStr(T_Z),
      city |-> PyStr(T_Z), state |-> PyStr(T_ab), year_mfr |-> PyInt(T_0),
      type_aircraft |-> PyInt(T_0)]}

UpsertSearchModel ==
    \E data \in SearchModelData, fault \in Faults :
        LET r == upsert_aircraft_model(db, data, fault)
        IN  /\ db' = r.db
            /\ last' = Call("upsert_aircraft_model", data, fault, r.raised, r.raised = "")
            /\ UNCHANGED upserted
            /\ UNCHANGED notApiVars

UpsertSearchRegistry ==
    \E data \in SearchRegistryData, fault \in Faults :
        LET r == upsert_aircraft_registry(db, data, fault)
        IN  /\ db' = r.db
            /\ last' = Call("upsert_aircraft_registry", data, fault, r.raised, r.raised = "")
            /\ UNCHANGED upserted
            /\ UNCHANGED notApiVars

SearchModels ==
    \E f \in ModelFilters :
        \E rows \in search_aircraft_models(db, f) :
            /\ last' = Call("search_aircraft_models", f, "none", "", rows)
            /\ UNCHANGED <<db, upserted>>
            /\ UNCHANGED notApiVars

SearchRegistry ==
    \E f \in RegistryFilters :
        \E rows \in search_aircraft_registry(db, f) :
            /\ last' = Call("search_aircraft_registry", f, "none", "", rows)
            /\ UNCHANGED <<db, upserted>>
            /\ UNCHANGED notApiVars

GetStats ==
    /\ last' = Call("get_stats", <<>>, "none", "", get_stats(db))
    /\ UNCHANGED <<db, upserted>>
    /\ UNCHANGED notApiVars

----------------------------------------------------------------------------
(* The directories the runs are checked on *)

T_07 == <<"0", "7">>

T_nan == <<"n", "a", "n">>

T_blank == <<" ">>

Header(kind) ==
    IF kind = "master"
    THEN <<"N-NUMBER", "MFR MDL CODE", "ENG MFR MDL", "MODE S CODE HEX">>
    ELSE <<"CODE", "MODEL">>

\* a row of an authority file with this key cell and this cell next to it
FileRow(kind, key, payload) ==
    IF kind = "master" THEN <<key, payload, T_E1, T_AB>> ELSE <<key, payload>>

TextFile(kind, rows) == [state |-> "text", header |-> Header(kind), rows |-> rows]

\* key and payload cells of a row: a plain key written twice and once with a
\* number no 64-bit integer holds, no key, keys that read as numbers, a blank row
RowCells ==
    {<<T_X1, T_Z>>, <<T_X1, T_Z2>>, <<T_X1, T_Big>>, <<<<>>, T_Z>>, <<T_07, T_Z>>,
     <<T_7, T_Z2>>, <<T_0, T_Z>>, <<T_nan, T_Z>>, <<T_blank, <<>>>>}

MaxFileRows == 2

\* a directory that holds one authority file of up to MaxFileRows rows
FileDirs ==
    {[NoDirectory EXCEPT
        !.exists = TRUE,
        ![kind] = TextFile(kind, [i \in DOMAIN c |-> FileRow(kind, c[i][1], c[i][2])])] :
        kind \in Kinds, c \in UNION {[1..n -> RowCells] : n \in 0..MaxFileRows}}

\* an authority file with a column the mapping does not map, and the rows it
\* may hold: a key, then up to one cell more than the header has names
WideFile(kind, rows) ==
    [state |-> "text", header |-> Header(kind) \o <<"NOTE">>, rows |-> rows]

WideRows(kind) ==
    {SubSeq(FileRow(kind, key, T_Z) \o <<T_Z2, T_ab>>, 1, n) :
        key \in {T_X1, T_Q9}, n \in 1..(Len(Header(kind)) + 2)}

WideDirs ==
    UNION {{[NoDirectory EXCEPT !.exists = TRUE, ![kind] = WideFile(kind, rows)] :
                rows \in UNION {[1..n -> WideRows(kind)] : n \in 0..MaxFileRows}} :
           kind \in Kinds}

\* an authority file with a row that is stored and a row whose upsert raises
GoodFile(kind) ==
    TextFile(kind, <<FileRow(kind, T_X1, T_Z), FileRow(kind, T_Q9, T_Big)>>)

AuthorityFiles(kind) ==
    {NoFile, [NoFile EXCEPT !.state = "empty"], [NoFile EXCEPT !.state = "unreadable"],
     GoodFile(kind)}

Unit(n, ok) == [n |-> n, ok |-> ok]

SecondaryFile(name, stem, suffix, shape, units) ==
    [name |-> name, stem |-> stem, suffix |-> suffix, shape |-> shape, units |-> units]

\* the secondary files a directory may hold, in the order iterdir() lists them
SecondaryFiles ==
    << SecondaryFile("a.json", "a", ".json", "list", <<Unit(2, TRUE)>>),
       SecondaryFile("b.json", "b", ".json", "malformed", <<>>),
       SecondaryFile("c.csv", "c", ".csv", "rows", <<Unit(2, TRUE)>>),
       SecondaryFile("d.csv", "d", ".csv", "rows", <<Unit(1, FALSE)>>),
       SecondaryFile("e.xlsx", "e", ".xlsx", "workbook", <<Unit(1, TRUE), Unit(1, TRUE)>>),
       SecondaryFile("f.xlsx", "f", ".xlsx", "workbook", <<Unit(1, TRUE), Unit(0, FALSE)>>),
       SecondaryFile("g.dat", "g", ".dat", "", <<>>) >>

MaxOthers == 2

InListing(S, f) == f \in S

Listings ==
    {SelectSeq(SecondaryFiles, LAMBDA f : InListing(S, f)) :
        S \in {T \in SUBSET {SecondaryFiles[i] : i \in DOMAIN SecondaryFiles} :
                  Cardinality(T) <= MaxOthers}}

Dirs ==
    {NoDirectory} \cup
    [exists : {TRUE}, acftref : AuthorityFiles("acftref"), engine : AuthorityFiles("engine"),
     master : AuthorityFiles("master"), others : Listings]

----------------------------------------------------------------------------
(* Connections step by step: callers (threads) that each run one operation  *)
(* in `with self.get_connection() as conn`.  A writer takes the write lock  *)
(* at its first write; its writes stay in its own view until the commit.    *)
(* In WAL mode a reader reads the committed store and waits for nobody.     *)

MaxCallers == 3

Callers == 1..MaxCallers

Unused ==
    [state |-> "unused", op |-> <<>>, next |-> 0, wrote |-> FALSE, view |-> EmptyStore,
     raised |-> "", seen |-> {}, stats |-> <<>>, lockAtRead |-> 0]

\* the operations a caller may run
Operations ==
    {[kind |-> "upsert_aircraft_model", arg |-> data] :
            data \in {m \in ModelData : m.code # PyNone}}
        \cup {[kind |-> "ingest_json", arg |-> SecondaryFiles[1]],
              [kind |-> "get_aircraft_model", arg |-> T_X1]}

\* the operations that read
ReadOperations ==
    {[kind |-> "get_aircraft_model", arg |-> T_X1], [kind |-> "get_stats", arg |-> <<>>]}

\* the statements the operation hands to conn.execute, in order
StatementsOf(op) ==
    CASE op.kind = "upsert_aircraft_model" ->
            <<[sql |-> "INSERT aircraft_models", arg |-> op.arg]>>
      [] op.kind = "ingest_json" ->
            [i \in 1..op.arg.units[1].n |->
                [sql |-> "INSERT custom_data", arg |-> <<op.arg.name, i>>]]
      [] op.kind = "get_aircraft_model" ->
            <<[sql |-> "SELECT aircraft_models", arg |-> op.arg]>>
      [] op.kind = "get_stats" ->
            <<[sql |-> "SELECT COUNT", arg |-> op.arg]>>

IsWrite(stmt) == stmt.sql \notin {"SELECT aircraft_models", "SELECT COUNT"}

\* the exception the statement ends with, "" for none
StatementRaises(stmt, fault) ==
    IF stmt.sql = "INSERT aircraft_models"
    THEN ExecuteRaises(<<Get(stmt.arg, "code"), Get(stmt.arg, "model")>>, fault)
    ELSE IF fault = "execute" THEN "OperationalError" ELSE ""

\* the store as the connection sees it after the statement
Written(d, stmt) ==
    CASE stmt.sql = "INSERT aircraft_models" ->
            [d EXCEPT !.aircraft_models =
                insert_aircraft_models(@,
                    [code |-> Bind(Get(stmt.arg, "code")), model |-> Bind(Get(stmt.arg, "model")),
                     raw_json |-> stmt.arg])]
      [] stmt.sql = "INSERT custom_data" ->
            [d EXCEPT !.custom_data =
                BagAdd(@, [source_file |-> stmt.arg[1], table_name |-> "data",
                           data_json |-> stmt.arg[2]], 1)]
      [] OTHER -> d

AllRows(d) == UNION {BagToSet(d[tb]) : tb \in Tables}

\* sqlite3.connect(...); the PRAGMAs; yield conn
Open(c, ops) ==
    /\ conns[c].state = "unused"
    /\ \E op \in ops :
           conns' = [conns EXCEPT ![c] = [Unused EXCEPT !.state = "open", !.op = op, !.next = 1]]
    /\ UNCHANGED <<db, lock, committed>>
    /\ UNCHANGED notConnVars

Connect(c) == Open(c, Operations)

\* the operations that write
WriteOperations == {op \in Operations : IsWrite(StatementsOf(op)[1])}

\* a caller that writes opens its connection
ConnectWriter(c) == Open(c, WriteOperations)

\* a caller that reads, or upserts one aircraft model, opens its connection
ConnectReader(c) ==
    Open(c, ReadOperations \cup {op \in Operations : op.kind = "upsert_aircraft_model"})

\* a store without isolation: a statement sees the writes of the lock holder
Snapshot_uncommitted(d, cs, l, c) == IF l # 0 THEN cs[l].view ELSE d

\* what a statement of connection c sees: the committed store, and the
\* connection's own writes once it has written
Snapshot(d, cs, l, c) == IF cs[c].wrote THEN cs[c].view ELSE d

\* writers that do not lock: a write goes ahead whoever holds the lock
MayWrite_unlocked(l, c) == TRUE

\* the storage engine lets connection c write when no other connection holds
\* the write lock
MayWrite(l, c) == l \in {0, c}

\* conn.execute of the next statement: a write needs the write lock
Execute(c) ==
    /\ conns[c].state = "open"
    /\ conns[c].next <= Len(StatementsOf(conns[c].op))
    /\ \E fault \in {"none", "execute"} :
        LET cn == conns[c]
            stmt == StatementsOf(cn.op)[cn.next]
            mine == Snapshot(db, conns, lock, c)
            exc == StatementRaises(stmt, fault)
        IN  /\ IsWrite(stmt) /\ exc = "" => MayWrite(lock, c)
            /\ ~IsWrite(stmt) => fault = "none"
            /\ conns' = [conns EXCEPT ![c] =
                  IF exc # ""
                  THEN [cn EXCEPT !.state = "raising", !.raised = exc]
                  ELSE IF IsWrite(stmt)
                  THEN [cn EXCEPT !.next = @ + 1, !.wrote = TRUE, !.view = Written(mine, stmt)]
                  ELSE IF stmt.sql = "SELECT COUNT"
                  THEN [cn EXCEPT !.next = @ + 1, !.lockAtRead = lock,
                                  !.stats = get_stats(mine)]
                  ELSE [cn EXCEPT !.next = @ + 1, !.lockAtRead = lock,
                                  !.seen = get_aircraft_model(mine, stmt.arg)]]
            /\ lock' = IF exc = "" /\ IsWrite(stmt) THEN c ELSE lock
    /\ UNCHANGED <<db, committed>>
    /\ UNCHANGED notConnVars

\* the write lock stays with another connection for the 30 s of timeout
LockTimeout(c) ==
    /\ conns[c].state = "open"
    /\ conns[c].next <= Len(StatementsOf(conns[c].op))
    /\ IsWrite(StatementsOf(conns[c].op)[conns[c].next])
    /\ ~MayWrite(lock, c)
    /\ conns' = [conns EXCEPT ![c] = [@ EXCEPT !.state = "raising",
                                               !.raised = "OperationalError"]]
    /\ UNCHANGED <<db, lock, committed>>
    /\ UNCHANGED notConnVars

\* the body is over: conn.commit(), which may itself raise, then conn.close()
Commit(c) ==
    /\ conns[c].state = "open"
    /\ conns[c].next > Len(StatementsOf(conns[c].op))
    /\ \E fault \in {"none", "commit"} :
        LET cn == conns[c]
            body == [raised |-> IF fault = "commit" THEN "OperationalError" ELSE "",
                     db |-> IF cn.wrote THEN cn.view ELSE db]
        IN  /\ fault = "commit" => cn.wrote
            /\ db' = get_connection(db, body)
            /\ conns' = [conns EXCEPT ![c] = [@ EXCEPT !.state = "closed",
                                                       !.raised = body.raised]]
            /\ committed' = committed \cup AllRows(get_connection(db, body))
    /\ lock' = IF lock = c THEN 0 ELSE lock
    /\ UNCHANGED notConnVars

\* the body raised: conn.rollback(); raise; conn.close()
Rollback(c) ==
    /\ conns[c].state = "raising"
    /\ LET cn == conns[c]
           body == [raised |-> cn.raised, db |-> IF cn.wrote THEN cn.view ELSE db]
       IN  /\ db' = get_connection(db, body)
           /\ committed' = committed \cup AllRows(get_connection(db, body))
    /\ conns' = [conns EXCEPT ![c] = [@ EXCEPT !.state = "closed"]]
    /\ lock' = IF lock = c THEN 0 ELSE lock
    /\ UNCHANGED notConnVars

NoConnections ==
    /\ conns = [c \in Callers |-> Unused]
    /\ lock = 0
    /\ committed = {}

ApiInit ==
    /\ db = EmptyStore
    /\ last = Call("", <<>>, "none", "", FALSE)
    /\ upserted = [tb \in Tables |-> <<>>]
    /\ clock = [now |-> 0, rows |-> <<>>]
    /\ runs = <<>>

Init ==
    /\ ApiInit
    /\ dir = NoDirectory
    /\ env = [openpyxl |-> TRUE, faults |-> 0]
    /\ ing = NotCalled
    /\ snap = NoSnapshot
    /\ NoConnections

Next ==
    \/ UpsertModel
    \/ UpsertEngine
    \/ UpsertRegistry
    \/ GetModel
    \/ GetEngine
    \/ GetByNNumber
    \/ GetByModeS
    \/ JoinByNNumber
    \/ JoinByModeS

\* the store API: upserts, point lookups and joined lookups
Spec == Init /\ [][Next]_vars

NextQuery ==
    \/ UpsertModel
    \/ UpsertEngine
    \/ ExecuteQuery

\* raw queries against a store that upserts fill
SpecQuery == Init /\ [][NextQuery]_vars

\* CURRENT_TIMESTAMP: the clock of the store counts whole seconds
MaxClock == 2

Tick ==
    /\ clock.now < MaxClock
    /\ clock' = [clock EXCEPT !.now = @ + 1]
    /\ UNCHANGED <<db, last>>
    /\ UNCHANGED notClockVars

\* the timestamps after an upsert under key at time now: created_at is the
\* column default of the insert, updated_at is set by insert and update alike
Stamp(rows, key, now) ==
    [k \in DOMAIN rows \cup {key} |->
        IF k # key THEN rows[k]
        ELSE [created_at |-> IF key \in DOMAIN rows THEN rows[key].created_at ELSE now,
              updated_at |-> now]]

\* upsert_aircraft_model, its timestamps followed
UpsertStamped ==
    \E data \in SearchModelData \cup {m \in ModelData : m.code # PyNone}, fault \in Faults :
        LET r == upsert_aircraft_model(db, data, fault)
        IN  /\ db' = r.db
            /\ last' = Call("upsert_aircraft_model", data, fault, r.raised, r.raised = "")
            /\ clock' = IF r.raised # "" THEN clock
                         ELSE [clock EXCEPT !.rows = Stamp(@, Bind(data.code), clock.now)]
            /\ UNCHANGED notClockVars

NextClock ==
    \/ Tick
    \/ UpsertStamped
    \/ GetModel

\* upserts of aircraft models as the seconds pass
SpecClock == Init /\ [][NextClock]_vars

NextSearch ==
    \/ UpsertSearchModel
    \/ UpsertSearchRegistry
    \/ SearchModels
    \/ SearchRegistry
    \/ GetModel
    \/ GetByNNumber
    \/ GetByModeS
    \/ JoinByNNumber
    \/ JoinByModeS
    \/ GetStats

\* searches, lookups and stats against a store that upserts fill
SpecSearch == Init /\ [][NextSearch]_vars

\* one authority file ingested, then ingested again
InitFile ==
    /\ ApiInit
    /\ dir \in FileDirs
    /\ env = [openpyxl |-> TRUE, faults |-> MaxFaults]
    /\ ing = NotCalled
    /\ snap = NoSnapshot
    /\ NoConnections

NextFile ==
    \/ IngestDirectoryStart
    \/ BeginAuthority
    \/ IngestRecord
    \/ EndAuthority
    \/ IngestDirectoryReturn
    \/ Rerun

SpecFile == InitFile /\ [][NextFile]_vars

\* the loop of ingest_acftref, ingest_engines or ingest_master over the rows
\* from row i on, by itself: [db, count, errors]
RECURSIVE ingest_rows(_, _, _, _, _, _)
ingest_rows(kind, d, count, errors, file, i) ==
    IF i > Len(file.rows)
    THEN [db |-> d, count |-> count, errors |-> errors]
    ELSE LET r == ingest_record(kind, d, count, errors, file.header, file.rows[i], "none")
         IN  ingest_rows(kind, r.db, r.count, r.errors, file, i + 1)

\* the ingestions the tool layer has handed to worker threads
Workers == 1..2

\* a worker before the first row of its file
Started == [pc |-> "rows", cursor |-> 1, count |-> 0, errors |-> 0, logged |-> {}]

\* the authority file the directory holds
FileKind == CHOOSE kind \in Kinds : dir[kind].state = "text"

\* the exception the upsert of a row raises, "" when it returns or is not called
RaisedBy(kind, d, header, row) ==
    LET data == ParseRow(header, ColumnMapping(kind), row)
    IN  IF IsBlankRow(row) \/ ~Truthy(Get(data, KeyField(kind))) THEN ""
        ELSE Upsert(kind, d, data, "none").raised

\* one turn of the loop of worker w: the upsert is one connection, so it sees
\* what the upserts of the other worker have committed
WorkerRecord(w) ==
    /\ runs[w].pc = "rows"
    /\ runs[w].cursor <= Len(dir[FileKind].rows)
    /\ LET file == dir[FileKind]
           row == file.rows[runs[w].cursor]
           r == ingest_record(FileKind, db, runs[w].count, runs[w].errors,
                              file.header, row, "none")
           e == RaisedBy(FileKind, db, file.header, row)
       IN  /\ db' = r.db
           /\ runs' = [runs EXCEPT ![w] =
                          [@ EXCEPT !.cursor = @ + 1, !.count = r.count,
                                    !.errors = r.errors,
                                    !.logged = IF e = "" THEN @ ELSE @ \cup {e}]]
    /\ UNCHANGED <<last, upserted, dir, env, ing, snap, conns, lock, committed, clock>>

\* the loop of worker w is over: its ingest_* returns the count
WorkerReturn(w) ==
    /\ runs[w].pc = "rows"
    /\ runs[w].cursor = Len(dir[FileKind].rows) + 1
    /\ runs' = [runs EXCEPT ![w] = [@ EXCEPT !.pc = "returned"]]
    /\ UNCHANGED <<db, last, upserted, dir, env, ing, snap, conns, lock, committed, clock>>

\* two ingestions of one authority file at once
InitWorkers ==
    /\ db = EmptyStore
    /\ last = Call("", <<>>, "none", "", FALSE)
    /\ upserted = [tb \in Tables |-> <<>>]
    /\ clock = [now |-> 0, rows |-> <<>>]
    /\ dir \in FileDirs
    /\ env = [openpyxl |-> TRUE, faults |-> 0]
    /\ ing = NotCalled
    /\ snap = NoSnapshot
    /\ NoConnections
    /\ runs = [w \in Workers |-> Started]

NextWorkers == \E w \in Workers : WorkerRecord(w) \/ WorkerReturn(w)

SpecWorkers == InitWorkers /\ [][NextWorkers]_vars

\* one authority file with an unmapped column and rows of every length
InitWide ==
    /\ ApiInit
    /\ dir \in WideDirs
    /\ env = [openpyxl |-> TRUE, faults |-> 0]
    /\ ing = NotCalled
    /\ snap = NoSnapshot
    /\ NoConnections

SpecWide == InitWide /\ [][NextFile]_vars

\* one authority file, its ingestion terminated at some step, then run again
InitStop ==
    /\ ApiInit
    /\ dir \in FileDirs
    /\ env = [openpyxl |-> TRUE, faults |-> 0]
    /\ ing = NotCalled
    /\ snap = NoSnapshot
    /\ NoConnections

NextStop ==
    \/ IngestDirectoryStart
    \/ BeginAuthority
    \/ IngestRecord
    \/ EndAuthority
    \/ IngestDirectoryReturn
    \/ Terminate
    \/ Rerun

SpecStop == InitStop /\ [][NextStop]_vars

\* a directory of authority and secondary files ingested, then ingested again
InitDir ==
    /\ ApiInit
    /\ dir \in Dirs
    /\ env \in [openpyxl : BOOLEAN, faults : {0}]
    /\ ing = NotCalled
    /\ snap = NoSnapshot
    /\ NoConnections

NextDir ==
    \/ IngestDirectoryStart
    \/ BeginAuthority
    \/ IngestRecord
    \/ EndAuthority
    \/ IngestOther
    \/ IngestDirectoryReturn
    \/ Rerun

SpecDir == InitDir /\ [][NextDir]_vars

\* callers whose connections interleave
NextConn ==
    \E c \in Callers :
        \/ Connect(c)
        \/ Execute(c)
        \/ LockTimeout(c)
        \/ Commit(c)
        \/ Rollback(c)

SpecConn == Init /\ [][NextConn]_vars

\* a step of the thread that runs caller c's operation
Step(c) == Execute(c) \/ LockTimeout(c) \/ Commit(c) \/ Rollback(c)

\* readers next to the upserts of one row
NextReaders == \E c \in Callers : ConnectReader(c) \/ Step(c)

SpecReaders == Init /\ [][NextReaders]_vars

\* writers only, and every thread that has opened a connection keeps running
NextWriters == \E c \in Callers : ConnectWriter(c) \/ Step(c)

SpecWriters == Init /\ [][NextWriters]_vars /\ \A c \in Callers : WF_vars(Step(c))

----------------------------------------------------------------------------
(* Upserts *)

KeyedTables == {"aircraft_models", "engines", "aircraft_registry"}

KeyColumn(tb) == IF tb = "aircraft_registry" THEN "n_number" ELSE "code"

\* the rows of table tb stored under key k, as a bag
RowsWithKey(d, tb, k) ==
    [r \in {x \in BagToSet(d[tb]) : x[KeyColumn(tb)] = k} |-> d[tb][r]]

\* C1: after any sequence of upserts each upserted key has exactly one row,
\* that row is the one the latest upsert of the key wrote, and each table
\* holds as many rows as distinct keys were upserted into it.
C1_OneRowPerKey ==
    \A tb \in KeyedTables :
        /\ \A k \in DOMAIN upserted[tb] :
               RowsWithKey(db, tb, k) = SetToBag({upserted[tb][k]})
        /\ RowCount(db[tb]) = Cardinality(DOMAIN upserted[tb])

\* C1 for the keys that are not NULL: one row each, the latest upsert's
C1_OneRowPerNonNullKey ==
    \A tb \in KeyedTables : \A k \in DOMAIN upserted[tb] \ {SqlNull} :
        RowsWithKey(db, tb, k) = SetToBag({upserted[tb][k]})

C1_OverwriteReached ==
    /\ last.op = "upsert_aircraft_model"
    /\ last.raised = ""
    /\ last.arg.model = PyStr(T_Z2)
    /\ [code |-> SqlText(T_X1), model |-> SqlText(T_Z2), raw_json |-> last.arg]
           \in BagToSet(db.aircraft_models)
    /\ RowCount(db.aircraft_models) = 1

----------------------------------------------------------------------------
(* Raw queries *)

\* C4: execute_query raises ValueError, with no connection opened and no
\* text handed to the engine, for every text whose stripped, upper-cased
\* form does not start with SELECT; the rejected call leaves every table as
\* it was.
C4_GuardFailsClosed ==
    /\ [](last.op = "execute_query" /\ ~StartsWith(Upper(Strip(last.arg)), KW_SELECT)
            => /\ last.raised = "ValueError"
               /\ ~last.result.opened
               /\ last.result.reached = <<>>)
    /\ [][last'.op = "execute_query" /\ last'.raised = "ValueError" => db' = db]_vars

C4_RejectedDelete ==
    /\ last.op = "execute_query"
    /\ last.arg = Q_DELETE
    /\ last.raised = "ValueError"
    /\ ~last.result.opened
    /\ db.engines # EmptyBag

\* C5: "SELECT 1" succeeds when the engine hits no fault; a text that starts
\* with select and carries a second statement is refused with an exception;
\* and no call of execute_query, accepted or refused, changes a table.
C5_QueriesNeverWrite ==
    /\ [](last.op = "execute_query" /\ last.arg = Q_SELECT_1 /\ last.fault = "none"
            => last.raised = "")
    /\ [](last.op = "execute_query" /\ last.arg \in {Q_select_drop, Q_select_drop_x}
            => last.raised # "")
    /\ [][last'.op = "execute_query" => db' = db]_vars

C5_RefusedDrop ==
    /\ last.op = "execute_query"
    /\ last.arg = Q_select_drop
    /\ last.fault = "none"
    /\ last.raised = "ProgrammingError"
    /\ last.result.opened
    /\ db.engines # EmptyBag

----------------------------------------------------------------------------
(* Joined lookups *)

\* the joined columns a LEFT JOIN gives registry row r (in SQL, NULL equals nothing)
JoinedFieldsOf(d, r) ==
    [model_name |->
        IF r.mfr_mdl_code # SqlNull
              /\ \E m \in BagToSet(d.aircraft_models) : m.code = r.mfr_mdl_code
        THEN (CHOOSE m \in BagToSet(d.aircraft_models) : m.code = r.mfr_mdl_code).model
        ELSE SqlNull,
     engine_model |->
        IF r.eng_mfr_mdl # SqlNull
              /\ \E e \in BagToSet(d.engines) : e.code = r.eng_mfr_mdl
        THEN (CHOOSE e \in BagToSet(d.engines) : e.code = r.eng_mfr_mdl).model
        ELSE SqlNull]

\* C6: for any registry entry of the store, the joined lookup called with the
\* entry's registration, or with its transponder address, returns that entry,
\* with the fields of the matching model and engine rows, NULL where no row
\* matches, and raises nothing.
C6_JoinedLookupReturnsEntry ==
    /\ last.op = "get_aircraft_with_model_info" =>
           \A r \in BagToSet(db.aircraft_registry) :
               r.n_number = SqlText(last.arg) =>
                   /\ last.raised = ""
                   /\ last.result.found
                   /\ last.result.row.entry = r
                   /\ last.result.row.model_name = JoinedFieldsOf(db, r).model_name
                   /\ last.result.row.engine_model = JoinedFieldsOf(db, r).engine_model
    /\ last.op = "get_aircraft_by_mode_s_with_details" =>
           \A r \in BagToSet(db.aircraft_registry) :
               r.mode_s_code_hex = SqlText(last.arg) =>
                   /\ last.raised = ""
                   /\ last.result.found
                   /\ last.result.row.entry = r
                   /\ last.result.row.model_name = JoinedFieldsOf(db, r).model_name
                   /\ last.result.row.engine_model = JoinedFieldsOf(db, r).engine_model

\* what a joined lookup returns is an entry of the registry with the fields a
\* LEFT JOIN gives it: a missing model or engine row yields NULL, not an error
C6_ReturnedRowIsLeftJoin ==
    last.op \in {"get_aircraft_with_model_info", "get_aircraft_by_mode_s_with_details"}
        /\ last.result.found =>
            /\ last.raised = ""
            /\ last.result.row.entry \in BagToSet(db.aircraft_registry)
            /\ last.result.row.model_name = JoinedFieldsOf(db, last.result.row.entry).model_name
            /\ last.result.row.engine_model = JoinedFieldsOf(db, last.result.row.entry).engine_model

----------------------------------------------------------------------------
(* Ingestion run twice *)

\* both runs of ingest_directory returned and no upsert met a fault
TwoRunsReturned ==
    /\ ing.run > 1
    /\ ing.pc = "returned"
    /\ snap.ing.pc = "returned"
    /\ ing.faults = 0

\* C2: ingesting the same authority file a second time leaves the store with
\* the rows and the row counts the first ingestion left, and the second run
\* counts as many errors as the first (none for a duplicate key).
C2_ReingestSameStore ==
    TwoRunsReturned =>
        /\ db = snap.db
        /\ \A tb \in Tables : RowCount(db[tb]) = RowCount(snap.db[tb])
        /\ ing.errors = snap.ing.errors

\* C2 when the first ingestion stored no row with a NULL key
C2_ReingestSameStoreOfKeyedRows ==
    TwoRunsReturned /\ (\A tb \in KeyedTables : NullKeyRows(snap.db[tb], KeyColumn(tb)) = 0) =>
        /\ db = snap.db
        /\ ing.errors = snap.ing.errors

\* C3: a second run of ingest_directory on the unchanged directory leaves
\* every table, custom_data included, with the row count the first run left.
C3_RerunKeepsRowCounts ==
    TwoRunsReturned => \A tb \in Tables : RowCount(db[tb]) = RowCount(snap.db[tb])

\* C3 for the tables written by upsert
C3_RerunKeepsKeyedRowCounts ==
    TwoRunsReturned => \A tb \in Tables \ {"custom_data"} : db[tb] = snap.db[tb]

----------------------------------------------------------------------------
(* Failures during ingestion *)

\* C7: for a directory that exists, whatever its files hold, ingest_directory
\* returns its summary and never raises.
C7_DirectoryIngestionNeverRaises == dir.exists => ing.pc # "raised"

\* what makes ingest_directory raise: an authority file without a header line,
\* or one that cannot be opened
C7_RaisesOnlyOnAuthorityFile ==
    ing.pc = "raised" =>
        \E kind \in Kinds : dir[kind].state \in {"empty", "unreadable"} /\ ing.error # ""

\* the processing of a secondary file fails: it cannot be read or parsed to
\* the end, or nothing can read it
ProcessingRaises(file) ==
    /\ file.suffix \in {".json", ".csv", ".xlsx"}
    /\ \/ file.shape \in {"malformed", "corrupt", "unreadable"}
       \/ \E i \in DOMAIN file.units : ~file.units[i].ok

ProcessingFails(file) ==
    \/ file.suffix \in {".json", ".csv"} /\ ProcessingRaises(file)
    \/ file.suffix = ".xlsx" /\ (ProcessingRaises(file) \/ ~env.openpyxl)

Names(seq) == {seq[i] : i \in DOMAIN seq}

SkippedWithError(name) ==
    \E i \in DOMAIN ing.files_skipped :
        /\ ing.files_skipped[i].file = name
        /\ ing.files_skipped[i].key = "error"
        /\ ing.files_skipped[i].text # ""

\* every other file is handled, and a valid authority file has its record
\* stored and a non-zero count in the summary
OthersHandled ==
    /\ \A i \in DOMAIN dir.others :
           \/ dir.others[i].name \in Names(ing.files_processed)
           \/ \E j \in DOMAIN ing.files_skipped : ing.files_skipped[j].file = dir.others[i].name
    /\ \A kind \in Kinds :
           dir[kind] = GoodFile(kind) =>
               /\ FileName(kind) \in Names(ing.files_processed)
               /\ ing.stats[kind].count > 0
               /\ \E r \in BagToSet(db[TableOf(kind)]) : r[KeyColumn(TableOf(kind))] = SqlText(T_X1)

\* C8: when the processing of a secondary file fails, the file is in
\* files_skipped with an error text and not in files_processed, every other
\* file is still handled, and valid authority files are stored and counted.
C8_FailedFileIsSkipped ==
    ing.pc = "returned" /\ dir.exists =>
        \A i \in DOMAIN dir.others :
            ProcessingFails(dir.others[i]) =>
                /\ SkippedWithError(dir.others[i].name)
                /\ dir.others[i].name \notin Names(ing.files_processed)
                /\ OthersHandled

\* C8 for the failures that raise
C8_RaisingFileIsSkipped ==
    ing.pc = "returned" /\ dir.exists =>
        \A i \in DOMAIN dir.others :
            ProcessingRaises(dir.others[i])
                /\ (dir.others[i].suffix = ".xlsx" => env.openpyxl) =>
                    /\ SkippedWithError(dir.others[i].name)
                    /\ dir.others[i].name \notin Names(ing.files_processed)
                    /\ OthersHandled

\* the store after every statement of the list, in order
RECURSIVE ApplyAll(_, _)
ApplyAll(d, stmts) ==
    IF stmts = <<>> THEN d ELSE ApplyAll(Written(d, Head(stmts)), Tail(stmts))

\* caller c leaves its connection context in this step
Leaves(c) == conns[c].state \in {"open", "raising"} /\ conns'[c].state = "closed"

\* C9: an operation run in a connection context is all-or-nothing: when it
\* completes, the store gets all its writes at once; when it raises, the
\* store is as it was; nothing else changes the store, and a reader only
\* ever sees rows that a commit made visible.
C9_AllOrNothing ==
    /\ [][\A c \in Callers :
            Leaves(c) =>
                IF conns'[c].raised = ""
                THEN db' = ApplyAll(db, StatementsOf(conns[c].op))
                ELSE db' = db]_vars
    /\ [][db' # db => \E c \in Callers : Leaves(c) /\ conns'[c].raised = ""]_vars
    /\ [](\A c \in Callers : \A res \in conns[c].seen : res.found => res.row \in committed)

\* a batch of two inserts raised after its first insert and left no row, and
\* a reader read a row another caller had committed
C9_BatchRolledBack ==
    \E c, r \in Callers :
        /\ conns[c].state = "closed"
        /\ conns[c].op.kind = "ingest_json"
        /\ conns[c].wrote
        /\ conns[c].raised # ""
        /\ db.custom_data = EmptyBag
        /\ conns[r].state = "closed"
        /\ conns[r].op.kind = "get_aircraft_model"
        /\ \E res \in conns[r].seen : res.found

\* the step is a turn of an ingest_* loop whose upsert raised
UpsertRaisedStep ==
    /\ Len(ing'.log) = Len(ing.log) + 1
    /\ ing'.log[Len(ing'.log)].outcome = "error"

\* the rows of the authority files gone through in this run, each with a key,
\* were handed to upsert
RowsAllUpserted ==
    \A kind \in Kinds :
        FileName(kind) \in Names(ing.files_processed) =>
            \A i \in DOMAIN dir[kind].rows :
                \E j \in DOMAIN ing.log :
                    /\ ing.log[j].run = ing.run
                    /\ ing.log[j].kind = kind
                    /\ ing.log[j].row = i
                    /\ LET row == dir[kind].rows[i]
                           data == ParseRow(dir[kind].header, ColumnMapping(kind), row)
                       IN  ~IsBlankRow(row) /\ Truthy(Get(data, KeyField(kind)))
                               => ing.log[j].outcome \in {"stored", "error"}

\* C10: when the upsert of a record of an authority file raises, the error
\* counter grows by one, the record is neither stored nor counted, and the
\* loop goes on: every later record of the file is still handed to upsert.
C10_FailedRecordIsolated ==
    /\ [][UpsertRaisedStep =>
            /\ ing'.errors = ing.errors + 1
            /\ ing'.count = ing.count
            /\ db' = db
            /\ ing'.pc = ing.pc
            /\ ing'.cursor = ing.cursor + 1]_vars
    /\ []RowsAllUpserted

C10_LaterRecordStored ==
    \E i, j \in DOMAIN ing.log :
        /\ ing.log[i].run = ing.log[j].run
        /\ ing.log[i].kind = ing.log[j].kind
        /\ ing.log[i].row < ing.log[j].row
        /\ ing.log[i].outcome = "error"
        /\ ing.log[j].outcome = "stored"
        /\ FileName(ing.log[i].kind) \in Names(ing.files_processed)
        /\ ing.errors >= 1

----------------------------------------------------------------------------
(* Records with and without a key *)

\* the step is a turn of an ingest_* loop, on the row StepRow of file StepKind
RecordStep == Len(ing'.log) = Len(ing.log) + 1

StepEntry == ing'.log[Len(ing'.log)]

StepKind == StepEntry.kind

StepRow == dir[StepEntry.kind].rows[StepEntry.row]

\* the text the row holds under the header of the key column, <<>> if none
KeyCell(kind, header, row) ==
    LET at == {i \in 1..Len(header) :
                  /\ i <= Len(row)
                  /\ header[i] \in DOMAIN ColumnMapping(kind)
                  /\ ColumnMapping(kind)[header[i]] = KeyField(kind)}
    IN  IF at = {} THEN <<>> ELSE Strip(row[MaxOf(at)])

StepKeyCell == KeyCell(StepKind, dir[StepKind].header, StepRow)

\* C11: a record whose key field is absent or empty is dropped silently: the
\* store, the error counter and the ingested count stay as they were.
C11_MissingKeyDropped ==
    [][RecordStep /\ StepKeyCell = <<>> =>
          /\ StepEntry.outcome \in {"dropped", "blank"}
          /\ db' = db
          /\ ing'.errors = ing.errors
          /\ ing'.count = ing.count]_vars

\* a file with a keyless row and a keyed row went through: one record counted,
\* no error
C11_KeylessRowSkipped ==
    /\ ing.pc = "returned"
    /\ ing.run = 1
    /\ ing.errors = 0
    /\ \E kind \in Kinds :
        /\ dir[kind].state = "text"
        /\ Len(dir[kind].rows) = 2
        /\ ing.stats[kind].count = 1
        /\ RowCount(db[TableOf(kind)]) = 1
        /\ \E i \in DOMAIN ing.log :
               /\ ing.log[i].outcome = "dropped"
               /\ KeyCell(kind, dir[kind].header, dir[kind].rows[ing.log[i].row]) = <<>>

\* C12: every record whose key column holds a non-empty text in the file is
\* handed to upsert: it ends stored or counted as an error, never dropped.
C12_KeyedRecordUpserted ==
    [][RecordStep /\ StepKeyCell # <<>> => StepEntry.outcome \in {"stored", "error"}]_vars

\* the texts int() or float() read as zero
ReadsAsZero(cell) == parse_value(cell).t \in {"int", "float"} /\ ~Truthy(parse_value(cell))

\* C12 for the keys that do not read as the number zero
C12_NonZeroKeyUpserted ==
    [][RecordStep /\ StepKeyCell # <<>> /\ ~ReadsAsZero(StepKeyCell)
          => StepEntry.outcome \in {"stored", "error"}]_vars

----------------------------------------------------------------------------
(* The summary of ingest_directory *)

\* the upserts of this call that raised
FailedUpserts ==
    Cardinality({i \in DOMAIN ing.log :
                    ing.log[i].run = ing.run /\ ing.log[i].outcome = "error"})

\* C13: the summary ingest_directory returns holds an aggregate error counter
\* whose value is the number of record upserts that failed during the call.
C13_SummaryCountsErrors ==
    ing.pc = "returned" /\ dir.exists =>
        /\ "errors" \in DOMAIN results
        /\ results["errors"] = FailedUpserts

\* the counter FAAAircraftIngest keeps during the call counts those upserts
C13_CounterCountsFailures == ing.pc = "returned" /\ dir.exists => ing.errors = FailedUpserts

\* C14: for a directory that does not exist, ingest_directory returns an error
\* result at once: no file is read, nothing is upserted or inserted, and the
\* store stays as it was.
C14_MissingDirectoryFailsFast ==
    /\ [][ing.pc = "idle" /\ ~dir.exists =>
            /\ ing'.pc = "returned"
            /\ DOMAIN results' = {"error"}
            /\ results'.error # ""
            /\ db' = db]_vars
    /\ [](~dir.exists =>
            /\ ing.pc \in {"idle", "returned"}
            /\ ing.log = <<>>
            /\ ing.files_processed = <<>>
            /\ db = EmptyStore)

C14_ErrorReturned ==
    /\ ~dir.exists
    /\ ing.pc = "returned"
    /\ ing.run = 2
    /\ results = [error |-> "Directory not found"]
    /\ db = EmptyStore

----------------------------------------------------------------------------
(* Letter case of registrations and transponder addresses *)

\* C15: registrations and transponder addresses are upper-cased on write as
\* on lookup: every stored registration is upper-case, and a lookup finds an
\* entry whatever the letter case it was upserted with and is asked with.
C15_LookupIgnoresCase ==
    /\ \A r \in BagToSet(db.aircraft_registry) :
           r.n_number # SqlNull => r.n_number.v = Upper(r.n_number.v)
    /\ last.op = "get_aircraft_by_n_number" =>
           \A k \in DOMAIN upserted.aircraft_registry :
               k # SqlNull /\ Upper(k.v) = Upper(last.arg) =>
                   /\ last.result.found
                   /\ Upper(last.result.row.n_number.v) = Upper(last.arg)
    /\ last.op = "get_aircraft_by_mode_s_hex" =>
           \A r \in BagToSet(db.aircraft_registry) :
               r.mode_s_code_hex # SqlNull /\ Upper(r.mode_s_code_hex.v) = Upper(last.arg) =>
                   /\ last.result.found
                   /\ Upper(last.result.row.mode_s_code_hex.v) = Upper(last.arg)

\* the lookups upper-case their argument: an entry stored in upper case is
\* found whatever the letter case of the argument
C15_UppercaseEntryFound ==
    /\ last.op = "get_aircraft_by_n_number" =>
           \A r \in BagToSet(db.aircraft_registry) :
               r.n_number = SqlText(Upper(last.arg)) =>
                   last.result.found /\ last.result.row.n_number = r.n_number
    /\ last.op = "get_aircraft_by_mode_s_hex" =>
           \A r \in BagToSet(db.aircraft_registry) :
               r.mode_s_code_hex = SqlText(Upper(last.arg)) =>
                   last.result.found /\ last.result.row.mode_s_code_hex = r.mode_s_code_hex

----------------------------------------------------------------------------
(* Ingestion terminated and run again *)

\* the store after the rows of one authority file went through its loop
RECURSIVE IngestRows(_, _, _, _)
IngestRows(kind, d, header, rows) ==
    IF rows = <<>> THEN d
    ELSE IngestRows(kind, ingest_record(kind, d, 0, 0, header, Head(rows), "none").db,
                    header, Tail(rows))

IngestFile(kind, d) ==
    IF dir[kind].state = "text" THEN IngestRows(kind, d, dir[kind].header, dir[kind].rows)
    ELSE d

\* the store one uninterrupted run on the directory leaves, from an empty store
UninterruptedRun == IngestFile("master", IngestFile("engine", IngestFile("acftref", EmptyStore)))

\* the first run was terminated and the second one returned
RerunAfterTermination ==
    /\ ing.run = 2
    /\ ing.pc = "returned"
    /\ snap.ing.pc = "killed"

\* C16: after an ingestion terminated at any point and a second run from the
\* beginning to its end, the model, engine and registry tables hold the rows
\* one uninterrupted run would have left.
C16_RerunReconciles ==
    RerunAfterTermination => \A tb \in KeyedTables : db[tb] = UninterruptedRun[tb]

\* C16 when the terminated run had stored no row with a NULL key
C16_RerunReconcilesKeyedRows ==
    RerunAfterTermination /\ (\A tb \in KeyedTables : NullKeyRows(snap.db[tb], KeyColumn(tb)) = 0)
        => \A tb \in KeyedTables : db[tb] = UninterruptedRun[tb]

----------------------------------------------------------------------------
(* Readers and writers *)

\* the next statement of caller c is a read
ReaderReady(c) ==
    /\ conns[c].state = "open"
    /\ conns[c].next <= Len(StatementsOf(conns[c].op))
    /\ ~IsWrite(StatementsOf(conns[c].op)[conns[c].next])

C17_StatsDuringWrite ==
    \E w, r \in Callers :
        /\ lock = w
        /\ conns[w].state = "open"
        /\ conns[w].wrote
        /\ conns[r].op.kind = "get_stats"
        /\ conns[r].next = 2
        /\ conns[r].lockAtRead = w
        /\ conns[r].stats = get_stats(db)
        /\ conns[r].stats # get_stats(conns[w].view)

\* the connections with uncommitted writes
Writers == {c \in Callers : conns[c].state \in {"open", "raising"} /\ conns[c].wrote}

\* caller c is about to write and another connection holds the write lock
Waiting(c) ==
    /\ conns[c].state = "open"
    /\ conns[c].next <= Len(StatementsOf(conns[c].op))
    /\ IsWrite(StatementsOf(conns[c].op)[conns[c].next])
    /\ lock \notin {0, c}

\* how far caller c is: statements executed, then raising, then closed
Progress(cn) ==
    CASE cn.state = "unused" -> 0
      [] cn.state = "open" -> cn.next
      [] cn.state = "raising" -> Len(StatementsOf(cn.op)) + 2
      [] cn.state = "closed" -> Len(StatementsOf(cn.op)) + 3

\* C18: at most one connection holds the write lock; a writer that finds it
\* held either acquires it once it is free or fails with an error that leaves
\* the store unchanged; a caller that opened a connection can always take a
\* step, whatever the others do, and each of its steps brings it closer to
\* closing, so nobody waits forever and callers never deadlock.
C18_SingleWriterBoundedWait ==
    /\ [](/\ Cardinality(Writers) <= 1
          /\ \A c \in Writers : lock = c)
    /\ [][\A c \in Callers :
            /\ Waiting(c) /\ conns'[c] # conns[c] =>
                  /\ conns'[c].state = "raising"
                  /\ conns'[c].raised # ""
                  /\ ~conns'[c].wrote
                  /\ db' = db
            /\ conns[c].state = "raising" /\ ~conns[c].wrote /\ conns'[c].state = "closed" =>
                  db' = db]_vars
    /\ [](\A c \in Callers : conns[c].state \in {"open", "raising"} => ENABLED Step(c))
    /\ [][\A c \in Callers :
            conns'[c] # conns[c] => Progress(conns'[c]) > Progress(conns[c])]_vars

\* every caller that opened a connection closes it
C18_EveryCallerFinishes ==
    \A c \in Callers : conns[c].state \in {"open", "raising"} ~> conns[c].state = "closed"

\* a writer found the lock held, failed on the timeout and closed, the other
\* writer still holding the lock and the store as it was
C18_WaiterTimedOut ==
    \E w, c \in Callers :
        /\ w # c
        /\ lock = w
        /\ conns[w].state = "open"
        /\ conns[w].wrote
        /\ conns[c].state = "closed"
        /\ conns[c].op.kind = "upsert_aircraft_model"
        /\ conns[c].raised = "OperationalError"
        /\ conns[c].next = 1
        /\ db = EmptyStore

\* a writer waited for the lock and acquired it after the holder committed
C18_WaiterAcquired ==
    \E w, c \in Callers :
        /\ w # c
        /\ conns[w].state = "closed"
        /\ conns[w].wrote
        /\ conns[w].raised = ""
        /\ lock = c
        /\ conns[c].wrote
        /\ db # EmptyStore

----------------------------------------------------------------------------
(* Reads and deletions *)

\* the operations that read
ReadPaths ==
    {"get_aircraft_model", "get_engine", "get_aircraft_by_n_number",
     "get_aircraft_by_mode_s_hex", "get_aircraft_with_model_info",
     "get_aircraft_by_mode_s_with_details", "search_aircraft_models",
     "search_aircraft_registry", "get_stats", "execute_query"}

\* no step takes a row away from a table
NothingDeleted == \A tb \in Tables : RowCount(db'[tb]) >= RowCount(db[tb])

\* C19: a point lookup, a search, a joined lookup and get_stats leave every
\* table as it was, and no operation makes the row count of a table decrease.
C19_ReadsNeverMutate ==
    [][/\ last' # last /\ last'.op \in ReadPaths => db' = db
       /\ NothingDeleted]_vars

\* get_stats counted a store where every searched table holds two rows
C19_StatsOfFilledStore ==
    /\ last.op = "get_stats"
    /\ last.result["aircraft_models"] = 2
    /\ last.result["aircraft_registry"] = 2
    /\ db["aircraft_models"] # EmptyBag

\* no step of an ingestion, and no commit or rollback of a connection, makes
\* the row count of a table decrease
C19_IngestionNeverDeletes == [][NothingDeleted]_vars

----------------------------------------------------------------------------
(* Search filters *)

\* value is a substring of the column's text, letters in either case
Contains(row, col, value) ==
    /\ Column(row, col) # SqlNull
    /\ \E i \in 0..(Len(Column(row, col).v) - Len(value)) :
           Upper(SubSeq(Column(row, col).v, i + 1, i + Len(value))) = Upper(value)

\* the column's text is value, letters in either case
SameText(row, col, value) ==
    Column(row, col) # SqlNull /\ Upper(Column(row, col).v) = Upper(value)

\* the row of aircraft_models satisfies every filter the caller gave
ModelSatisfies(r, f) ==
    /\ f.manufacturer # PyNone => Contains(r, "manufacturer", f.manufacturer.v)
    /\ f.model # PyNone => Contains(r, "model", f.model.v)
    /\ f.type_aircraft # PyNone => ColumnEq(r, "type_aircraft", f.type_aircraft)
    /\ f.num_engines # PyNone => ColumnEq(r, "num_engines", f.num_engines)

\* the registration satisfies every filter the caller gave but manufacturer
RegistrySatisfies(r, f) ==
    /\ f.registrant_name # PyNone => Contains(r, "registrant_name", f.registrant_name.v)
    /\ f.city # PyNone => Contains(r, "city", f.city.v)
    /\ f.state # PyNone => SameText(r, "state", f.state.v)
    /\ f.year_from # PyNone => ColumnGeq(r, "year_mfr", f.year_from)
    /\ f.year_to # PyNone => ColumnLeq(r, "year_mfr", f.year_to)
    /\ f.type_aircraft # PyNone => ColumnEq(r, "type_aircraft", f.type_aircraft)

\* the registration is of an aircraft model whose manufacturer contains value
MadeBy(d, r, value) ==
    \E m \in BagToSet(d.aircraft_models) :
        /\ m.code # SqlNull
        /\ m.code = Column(r, "mfr_mdl_code")
        /\ Contains(m, "manufacturer", value)

SearchStep(op) == last' # last /\ last'.op = op

\* the rows of aircraft_models a search with filters f has to choose from
ModelsExpected(d, f) ==
    LET keep(r) == ModelSatisfies(r, f)
    IN  Where(d.aircraft_models, {r \in BagToSet(d.aircraft_models) : keep(r)})

\* the registrations a search with filters f has to choose from
RegistryExpected(d, f) ==
    LET keep(r) ==
            /\ RegistrySatisfies(r, f)
            /\ f.manufacturer # PyNone => MadeBy(d, r, f.manufacturer.v)
    IN  Where(d.aircraft_registry, {r \in BagToSet(d.aircraft_registry) : keep(r)})

\* C20: a search returns rows that satisfy every filter the caller gave
\* (substring for text, equality for integers, year_from <= year <= year_to),
\* and leaves a row out only when it fails a filter or the limit is reached.
C20_FiltersAreAnded ==
    [][/\ SearchStep("search_aircraft_models") =>
            last'.result \in Limit(ModelsExpected(db, last'.arg), last'.arg.limit)
       /\ SearchStep("search_aircraft_registry") =>
            last'.result \in Limit(RegistryExpected(db, last'.arg), last'.arg.limit)]_vars

\* the filters search_aircraft_registry applies as the caller gave them:
\* no manufacturer, no state, no year 0
AppliedAsGiven(f) ==
    /\ f.manufacturer = PyNone
    /\ f.state = PyNone
    /\ f.year_from # PyInt(T_0)

\* the searches of aircraft models, and the searches of registrations by
\* name, city, a year that is not 0 and type, return the rows that satisfy
\* every filter, up to the limit
C20_AppliedFiltersAreAnded ==
    [][/\ SearchStep("search_aircraft_models") =>
            last'.result \in Limit(ModelsExpected(db, last'.arg), last'.arg.limit)
       /\ SearchStep("search_aircraft_registry") /\ AppliedAsGiven(last'.arg) =>
            last'.result \in Limit(RegistryExpected(db, last'.arg), last'.arg.limit)]_vars

\* a search by manufacturer Z returned a registration whose aircraft model
\* is made by another manufacturer
C20_ManufacturerIgnored ==
    /\ last.op = "search_aircraft_registry"
    /\ last.arg.manufacturer = PyStr(T_Z)
    /\ \E r \in BagToSet(last.result) : ~MadeBy(db, r, T_Z)

\* a search of registrations by two filters returned the one row that
\* satisfies both, out of two stored
C20_TwoFiltersOneRow ==
    /\ last.op = "search_aircraft_registry"
    /\ AppliedAsGiven(last.arg)
    /\ Cardinality(Supplied(last.arg)) = 2
    /\ BagCardinality(db.aircraft_registry) = 2
    /\ BagCardinality(last.result) = 1
    /\ last.arg.limit = DefaultLimit

----------------------------------------------------------------------------
(* The limit of a search *)

\* a search has just returned
Searched == last' # last /\ last'.op \in {"search_aircraft_models", "search_aircraft_registry"}

\* C21: whatever integer limit a search is given, it returns at most limit
\* rows, however many rows match.
C21_ResultCappedAtLimit ==
    [][Searched => BagCardinality(last'.result) <= last'.arg.limit]_vars

\* a search given a limit that is not negative returns at most limit rows
C21_ResultCappedAtNaturalLimit ==
    [][Searched /\ last'.arg.limit >= 0 =>
            BagCardinality(last'.result) <= last'.arg.limit]_vars

\* two rows matched and a search with limit 1 returned one of them
C21_OneOfTwoReturned ==
    /\ last.op = "search_aircraft_models"
    /\ last.arg.limit = 1
    /\ Supplied(last.arg) = {}
    /\ BagCardinality(db.aircraft_models) = 2
    /\ BagCardinality(last.result) = 1

----------------------------------------------------------------------------
(* The raw blob *)

\* the rows of the step's table stored under the key cell of the step's row
StoredUnderStepKey ==
    {r \in BagToSet(db'[TableOf(StepKind)]) :
        r[KeyColumn(TableOf(StepKind))] = SqlText(StepKeyCell)}

\* the blob of row r holds cell i of the step's row under its header name
BlobHolds(r, i) ==
    /\ "_raw" \in DOMAIN r.raw_json
    /\ i <= Len(dir[StepKind].header)
    /\ dir[StepKind].header[i] \in DOMAIN r.raw_json["_raw"]
    /\ r.raw_json["_raw"][dir[StepKind].header[i]] = Strip(StepRow[i])

RecordStored == RecordStep /\ StepEntry.outcome = "stored"

\* C22: the raw blob of a stored record holds every cell of the input row
\* under its header name, mapped or not, whether the row is shorter than the
\* header, as long or longer.
C22_BlobHoldsEveryColumn ==
    [][RecordStored =>
        \E r \in StoredUnderStepKey : \A i \in 1..Len(StepRow) : BlobHolds(r, i)]_vars

\* the raw blob of a stored record holds every cell of the input row that
\* stands under a header name, and the empty text for the names past the row
C22_BlobHoldsNamedColumns ==
    [][RecordStored =>
        \E r \in StoredUnderStepKey :
            /\ \A i \in 1..Len(StepRow) : i <= Len(dir[StepKind].header) => BlobHolds(r, i)
            /\ \A i \in 1..Len(dir[StepKind].header) :
                    i > Len(StepRow) => r.raw_json["_raw"][dir[StepKind].header[i]] = <<>>]_vars

\* a row with a cell under the unmapped column NOTE is stored with that cell
\* in its blob
C22_UnmappedColumnKept ==
    \E r \in BagToSet(db.aircraft_models) :
        /\ "_raw" \in DOMAIN r.raw_json
        /\ "NOTE" \in DOMAIN r.raw_json["_raw"]
        /\ r.raw_json["_raw"]["NOTE"] = T_Z2

----------------------------------------------------------------------------
(* The snapshot of the summary *)

\* ingest_directory has returned a summary
SummaryReturned == ing.pc = "returned" /\ dir.exists

\* C23: the store-wide snapshot of the summary holds the current row count of
\* every entity kind: aircraft models, engines, registry entries, dealers,
\* deregistered aircraft and custom records.
C23_SnapshotCountsEveryKind ==
    SummaryReturned =>
        \A tb \in Tables :
            /\ tb \in DOMAIN results.database_stats
            /\ results.database_stats[tb] = RowCount(db[tb])

\* the snapshot holds the current row count of each table get_stats lists
C23_SnapshotCountsListedTables ==
    SummaryReturned =>
        /\ DOMAIN results.database_stats = StatsTables
        /\ \A tb \in StatsTables : results.database_stats[tb] = RowCount(db[tb])

\* a run stored aircraft models and custom records and returned its summary
C23_CustomRecordsWritten ==
    /\ SummaryReturned
    /\ RowCount(db.custom_data) > 0
    /\ results.database_stats["aircraft_models"] > 0

----------------------------------------------------------------------------
(* Timestamps *)

\* an upsert has just succeeded under a key that was stored before
UpsertedAgain(key) ==
    /\ clock'.now = clock.now
    /\ last' # last \/ clock'.rows # clock.rows
    /\ last'.op = "upsert_aircraft_model"
    /\ last'.raised = ""
    /\ key = Bind(last'.arg.code)
    /\ key \in DOMAIN clock.rows

\* C24: an upsert of a key that is already stored leaves created_at as it was
\* and makes updated_at later than it was.
C24_UpdateTimestampAdvances ==
    [][\A key \in DOMAIN clock'.rows :
        UpsertedAgain(key) =>
            /\ clock'.rows[key].created_at = clock.rows[key].created_at
            /\ clock'.rows[key].updated_at > clock.rows[key].updated_at]_vars

\* an upsert of a stored key leaves created_at as it was; updated_at is never
\* earlier than it was, and later once the second has changed
C24_UpdateTimestampNeverEarlier ==
    [][\A key \in DOMAIN clock'.rows :
        UpsertedAgain(key) =>
            /\ clock'.rows[key].created_at = clock.rows[key].created_at
            /\ clock'.rows[key].updated_at >= clock.rows[key].updated_at
            /\ clock.now > clock.rows[key].updated_at =>
                    clock'.rows[key].updated_at > clock.rows[key].updated_at]_vars

\* a key upserted a second time, a second after the first
C24_UpsertedASecondLater ==
    \E key \in DOMAIN clock.rows :
        /\ clock.rows[key].created_at = 0
        /\ clock.rows[key].updated_at = 1
        /\ last.arg.model = PyStr(T_Z2)

----------------------------------------------------------------------------
(* The order of the files *)

\* the place of a file in the order of a run: models, engines, registry, the rest
Rank(name) ==
    CASE name = "ACFTREF.txt" -> 1
      [] name = "ENGINE.txt" -> 2
      [] name = "MASTER.txt" -> 3
      [] OTHER -> 4

\* the records of this run's log that are of this kind
LoggedOf(kind) ==
    {i \in 1..Len(ing.log) : ing.log[i].run = ing.run /\ ing.log[i].kind = kind}

\* the authority file of this kind is there and this run is through with it
Completed(kind) ==
    /\ dir[kind].state = "text"
    /\ Cardinality(LoggedOf(kind)) = Len(dir[kind].rows)
    /\ \E i \in 1..Len(ing.files_processed) : ing.files_processed[i] = FileName(kind)

\* this run has started on a file that comes after the file of this kind
StartedAfter(kind) ==
    \/ \E k \in Kinds : Rank(FileName(k)) > Rank(FileName(kind)) /\ LoggedOf(k) # {}
    \/ \E i \in 1..Len(ing.files_processed) :
            Rank(ing.files_processed[i]) > Rank(FileName(kind))
    \/ ing.files_skipped # <<>>
    \/ ing.pc = "others" /\ ing.cursor > 0

\* C25: in a run the models file is completely processed before the engines
\* file, the engines file before the registry file, and every authority file
\* that is there before any secondary file; an absent one is left out and
\* the others keep their order.
C25_AuthorityFilesInOrder ==
    /\ \A kind \in Kinds :
            /\ StartedAfter(kind) /\ dir.exists /\ dir[kind].state # "absent" => Completed(kind)
            /\ dir.exists /\ dir[kind].state = "absent" =>
                    /\ LoggedOf(kind) = {}
                    /\ \A i \in 1..Len(ing.files_processed) :
                            ing.files_processed[i] # FileName(kind)
    /\ \A i, j \in 1..Len(ing.files_processed) :
            i < j => \/ Rank(ing.files_processed[i]) < Rank(ing.files_processed[j])
                     \/ Rank(ing.files_processed[j]) = 4
    /\ \A i, j \in 1..Len(ing.log) :
            i < j /\ ing.log[i].run = ing.log[j].run =>
                Rank(FileName(ing.log[i].kind)) <= Rank(FileName(ing.log[j].kind))

\* a run without an engines file took the models, then the registry, then a
\* secondary file
C25_AbsentFileLeftOut ==
    /\ ing.pc = "returned"
    /\ dir.exists
    /\ dir.engine.state = "absent"
    /\ Len(ing.files_processed) = 3
    /\ ing.files_processed[1] = "ACFTREF.txt"
    /\ ing.files_processed[2] = "MASTER.txt"
    /\ LoggedOf("acftref") # {}
    /\ LoggedOf("master") # {}

----------------------------------------------------------------------------
(* C26: a secondary file that fails part-way leaves no row behind            *)

\* the file the loop over the other files handles next
CurrentOther == dir.others[ing.cursor + 1]

\* the loop over the other files has just recorded a file in files_skipped
\* under the key 'error'
FailureRecorded ==
    /\ ing.pc = "others"
    /\ ing.cursor < Len(dir.others)
    /\ Len(ing'.files_skipped) = Len(ing.files_skipped) + 1
    /\ ing'.files_skipped[Len(ing'.files_skipped)].key = "error"

\* C26: when the processing of a .json, .csv or .xlsx file fails and the file
\* is recorded in files_skipped with an error, the custom-record table holds
\* no row more than before the file was started
C26_FailedFileLeavesNoRows ==
    [][FailureRecorded => db'.custom_data = db.custom_data]_vars

\* C26 for the files read inside one connection: a failing .json or .csv file
\* leaves the custom-record table as it was
C26_FailedJsonOrCsvLeavesNoRows ==
    [][FailureRecorded /\ CurrentOther.suffix \in {".json", ".csv"}
           => db'.custom_data = db.custom_data]_vars

\* a .csv file that fails after rows were read has been skipped with an error
C26_CsvFailedPartWay ==
    /\ ing.pc = "others"
    /\ \E i \in 1..Len(ing.files_skipped), j \in 1..Len(dir.others) :
           /\ ing.files_skipped[i].key = "error"
           /\ dir.others[j].name = ing.files_skipped[i].file
           /\ dir.others[j].suffix = ".csv"
           /\ dir.others[j].shape # "unreadable"
           /\ dir.others[j].units[1].n > 0

----------------------------------------------------------------------------
(* C27: every entry of the directory is in the summary exactly once          *)

\* the names data_dir holds: the authority files that exist and the others
Entries ==
    {FileName(kind) : kind \in {k \in Kinds : dir[k].state # "absent"}}
        \cup {dir.others[i].name : i \in DOMAIN dir.others}

\* how often a name is in files_processed, and how often in files_skipped
TimesProcessed(name) ==
    Cardinality({i \in DOMAIN ing.files_processed : ing.files_processed[i] = name})

TimesSkipped(name) ==
    Cardinality({i \in DOMAIN ing.files_skipped : ing.files_skipped[i].file = name})

Unsupported(file) == file.suffix \notin {".xlsx", ".json", ".csv"}

\* the loop over the other files is at an entry with an unsupported extension
AtUnsupported ==
    /\ ing.pc = "others"
    /\ ing.cursor < Len(dir.others)
    /\ Unsupported(CurrentOther)

\* C27: in a returned summary every entry of the directory is exactly once in
\* files_processed or files_skipped, never in both and never in neither; an
\* entry with an unsupported extension is in files_skipped with a reason and
\* not with an error, and the step that handles it changes neither the store
\* nor the error counter
C27_EveryEntryExactlyOnce ==
    /\ [](SummaryReturned =>
            /\ \A name \in Entries : TimesProcessed(name) + TimesSkipped(name) = 1
            /\ \A i \in DOMAIN ing.files_processed : ing.files_processed[i] \in Entries
            /\ \A i \in DOMAIN ing.files_skipped : ing.files_skipped[i].file \in Entries
            /\ \A i \in DOMAIN dir.others :
                   Unsupported(dir.others[i]) =>
                       \E j \in DOMAIN ing.files_skipped :
                           /\ ing.files_skipped[j].file = dir.others[i].name
                           /\ ing.files_skipped[j].key = "reason"
                           /\ ing.files_skipped[j].text = "unsupported format")
    /\ [][AtUnsupported => db' = db /\ ing'.errors = ing.errors]_vars

\* a summary of a directory with an authority file, a processed secondary
\* file and an entry with an unsupported extension
C27_UnsupportedEntrySkipped ==
    /\ SummaryReturned
    /\ \E i \in DOMAIN dir.others : Unsupported(dir.others[i])
    /\ \E i \in DOMAIN dir.others : dir.others[i].name \in Names(ing.files_processed)
    /\ \E kind \in Kinds : FileName(kind) \in Names(ing.files_processed)
    /\ db.custom_data # EmptyBag

----------------------------------------------------------------------------
(* C28: a stored row is found again under the key text of the file           *)

\* what the point lookup of the table of `kind` may return for the key k
PointLookup(kind, d, k) ==
    CASE kind = "acftref" -> get_aircraft_model(d, k)
      [] kind = "engine" -> get_engine(d, k)
      [] kind = "master" -> get_aircraft_by_n_number(d, k)

\* the record of the step was stored and the lookup with the text of its key
\* cell, trimmed and upper-cased, finds a row
FoundUnderFileKey ==
    \A res \in PointLookup(StepKind, db', Upper(StepKeyCell)) : res.found

\* C28: every data row whose key column holds a non-empty text k and whose
\* upsert succeeded is found by the point lookup called with k, trimmed and
\* in upper case: reading the key as an integer or a real does not change
\* the key under which the row is stored
C28_KeyRoundTrip ==
    [][RecordStep /\ StepKeyCell # <<>> /\ StepEntry.outcome = "stored"
           => FoundUnderFileKey]_vars

\* C28 for the keys parse_value leaves as text
C28_TextKeyRoundTrip ==
    [][RecordStep /\ StepKeyCell # <<>> /\ StepEntry.outcome = "stored"
              /\ parse_value(StepKeyCell).t = "str"
           => FoundUnderFileKey]_vars

\* a row with a key that is no number has been stored by a finished run and
\* the lookup with the text of the file finds it
C28_TextKeyFound ==
    /\ ing.pc = "returned"
    /\ \E kind \in Kinds :
           /\ dir[kind].state = "text"
           /\ \E i \in DOMAIN ing.log :
                  LET k == KeyCell(kind, dir[kind].header, dir[kind].rows[ing.log[i].row])
                  IN  /\ ing.log[i].kind = kind
                      /\ ing.log[i].outcome = "stored"
                      /\ k # <<>>
                      /\ parse_value(k).t = "str"
                      /\ \A res \in PointLookup(kind, db, Upper(k)) : res.found

----------------------------------------------------------------------------
(* C29: every non-blank row of an authority file is counted once             *)

\* the authority files of the directory that were read
FilesRead == {kind \in Kinds : dir[kind].state = "text"}

\* the rows of the file parse_faa_csv yields: those that are not blank
NonBlankRows(kind) ==
    {i \in DOMAIN dir[kind].rows : ~IsBlankRow(dir[kind].rows[i])}

\* the yielded rows without a key: no cell, or an empty one, in the key column
MissingKeyRows(kind) ==
    {i \in NonBlankRows(kind) :
        KeyCell(kind, dir[kind].header, dir[kind].rows[i]) = <<>>}

\* the yielded rows the test "if not data.get(key)" turns away
FalsyKeyRows(kind) ==
    {i \in NonBlankRows(kind) :
        ~Truthy(Get(ParseRow(dir[kind].header, ColumnMapping(kind), dir[kind].rows[i]),
                    KeyField(kind)))}

\* the count the ingestion of the file returned
Ingested(kind) == ing.stats[kind].count

\* the upserts of this call for the file that returned without raising
SucceededUpserts(kind) ==
    Cardinality({i \in DOMAIN ing.log :
                    /\ ing.log[i].run = ing.run
                    /\ ing.log[i].kind = kind
                    /\ ing.log[i].outcome = "stored"})

\* the sum of n over the files read
RECURSIVE OverFiles(_, _)
OverFiles(n, kinds) ==
    IF kinds = {} THEN 0
    ELSE LET kind == CHOOSE k \in kinds : TRUE
         IN  n[kind] + OverFiles(n, kinds \ {kind})

\* C29: when the call has returned, the records counted as ingested, the
\* increments of the error counter and the records dropped for a missing key
\* add up to the non-blank data rows of the files, and the count reported
\* for a file is the number of its upserts that succeeded
C29_RecordAccounting ==
    SummaryReturned =>
        /\ OverFiles([kind \in Kinds |-> Ingested(kind)], FilesRead) + ing.errors
              + OverFiles([kind \in Kinds |-> Cardinality(MissingKeyRows(kind))], FilesRead)
             = OverFiles([kind \in Kinds |-> Cardinality(NonBlankRows(kind))], FilesRead)
        /\ \A kind \in FilesRead : Ingested(kind) = SucceededUpserts(kind)

\* C29 with the records the key test turns away as the dropped ones: a key
\* that reads as zero is among them
C29_RecordAccountingOfKeyTest ==
    SummaryReturned =>
        /\ OverFiles([kind \in Kinds |-> Ingested(kind)], FilesRead) + ing.errors
              + OverFiles([kind \in Kinds |-> Cardinality(FalsyKeyRows(kind))], FilesRead)
             = OverFiles([kind \in Kinds |-> Cardinality(NonBlankRows(kind))], FilesRead)
        /\ \A kind \in FilesRead : Ingested(kind) = SucceededUpserts(kind)

\* a file with one key on two rows has been ingested: two records counted,
\* one row stored
C29_RepeatedKeyCountedTwice ==
    /\ SummaryReturned
    /\ \E kind \in FilesRead :
           /\ Ingested(kind) = 2
           /\ RowCount(db[TableOf(kind)]) = 1

----------------------------------------------------------------------------
(* C30: two ingestions of one file at once leave what one leaves             *)

BothReturned == \A w \in Workers : runs[w].pc = "returned"

\* the store one ingestion of the file leaves, alone, from the empty store
OneIngestion == ingest_rows(FileKind, EmptyStore, 0, 0, dir[FileKind], 1)

\* C30: when two ingestions of the same authority file have run at once,
\* their upserts interleaved in any order, the store holds what one
\* ingestion alone leaves, one row per key, and neither run has logged a
\* duplicate-key error
C30_ConcurrentEqualsSequential ==
    BothReturned =>
        /\ db = OneIngestion.db
        /\ \A w \in Workers : "IntegrityError" \notin runs[w].logged
        /\ \A w \in Workers : runs[w].errors = OneIngestion.errors

\* C30 for the files whose ingestion stores no row with a NULL key
C30_ConcurrentEqualsSequentialOfKeyedRows ==
    BothReturned
        /\ NullKeyRows(OneIngestion.db[TableOf(FileKind)], KeyColumn(TableOf(FileKind))) = 0 =>
            /\ db = OneIngestion.db
            /\ \A w \in Workers : "IntegrityError" \notin runs[w].logged
            /\ \A w \in Workers : runs[w].errors = OneIngestion.errors

\* both runs are over and the second one wrote the first row of a key after
\* the first one had written its last: the store holds the last row's payload
C30_InterleavedRunsReturned ==
    /\ BothReturned
    /\ Len(dir[FileKind].rows) = 2
    /\ \A w \in Workers : runs[w].count = 2
    /\ RowCount(db[TableOf(FileKind)]) = 1
    /\ db = OneIngestion.db

====
